---- MODULE Spec2Model ----
(***************************************************************************)
(* Battery-swap station network: the discrete-event run of one station    *)
(* (simulation/station.py, demand.py, engine.py, timeline_recorder.py)    *)
(* on the event queue of its environment, and the scenario applicator     *)
(* (scenarios/applicator.py).                                              *)
(*                                                                         *)
(* Simulated time is counted in whole minutes.  The environment's queue   *)
(* is a set of events ordered by (time, priority, eid); an action pops    *)
(* the least event and runs the callbacks attached to it, i.e. it resumes *)
(* the process waiting on it up to that process's next yield.             *)
(***************************************************************************)
EXTENDS Integers, Sequences, FiniteSets, TLC

VARIABLES
    \* ---- one run of the engine ----
    cfg,                \* the configuration the engine was given
    draws,              \* the seeded stream of standard-exponential draws
    draw_idx,           \* draws consumed so far
    now,                \* env.now
    queue,              \* the environment's event heap
    next_eid,           \* the environment's event counter
    status,             \* "running" | "finished"
    level,              \* charged_store.level
    get_queue,          \* charged_store.get_queue (customers, FIFO)
    put_queue,          \* charged_store.put_queue (pending puts of one unit)
    depleted_count,
    charging_count,
    total_arrivals,
    successful_swaps,
    rejected_swaps,
    total_wait_time,
    swap_events,
    charge_events,
    inventory_events,
    customer_counter,   \* DemandGenerator.customer_counter
    cust,               \* per customer: position of its process_swap process
    hourly_snapshots,
    frames,             \* TimelineRecorder.frames
    next_snapshot_time, \* TimelineRecorder.next_snapshot_time
    run_no,             \* which run of a comparison this is (1 or 2)
    prev,               \* the result bundle of the previous run, if any
    heap,               \* the Python objects of a scenario application, by address
    baseline,           \* address of the caller's BaselineConfig
    before,             \* deep value of the baseline when apply_scenario was called
    scenario,           \* the ScenarioConfig (the delta)
    modified_config,    \* apply_scenario's local: address of the working copy
    result,             \* what the caller received from apply_scenario
    error,              \* the exception that left apply_scenario, if any
    apply_pc,           \* the position of apply_scenario
    call,               \* a function called on its own: its name and arguments
    ret                 \* <<>> before the call returns, then <<value>>

simVars == <<cfg, draws, draw_idx, now, queue, next_eid, status, level,
             get_queue, put_queue, depleted_count, charging_count,
             total_arrivals, successful_swaps, rejected_swaps,
             total_wait_time, swap_events, charge_events, inventory_events,
             customer_counter, cust, hourly_snapshots, frames,
             next_snapshot_time, run_no, prev>>

applyVars == <<heap, baseline, before, scenario, modified_config, result,
               error, apply_pc>>

callVars == <<call, ret>>

vars == <<simVars, applyVars, callVars>>

----------------------------------------------------------------------------
\* Bounds of the model

\* arrivals generated per run before the generator is stopped
MaxArrivals == 3

\* Program constants
URGENT == 0
NORMAL == 1
ZeroRateGap == 60
HourlyPeriod == 60
TickPeriod == 1
DefaultMaxWait == 15

Min(a, b) == IF a <= b THEN a ELSE b

Abs(a) == IF a >= 0 THEN a ELSE 0 - a

Last(s) == s[Len(s)]

\* "no value" of an optional coordinate
None == -1

----------------------------------------------------------------------------
\* Demand generator: the effective arrival rate (demand.py)

\* current_hour = int((now / 60) % 24)
HourOfDay(t) == (t \div 60) % 24

\* the window with its end hour included
IsHourInWindowClosed(current_hour, start_hour, end_hour) ==
    IF start_hour <= end_hour
    THEN start_hour <= current_hour /\ current_hour <= end_hour
    ELSE current_hour >= start_hour \/ current_hour <= end_hour

IsHourInWindow(current_hour, start_hour, end_hour) ==
    IF start_hour <= end_hour
    THEN start_hour <= current_hour /\ current_hour < end_hour
    ELSE current_hour >= start_hour \/ current_hour < end_hour

\* Great-circle distance in km.  Coordinates of the model lie on one
\* meridian and are given in km of arc, so the distance is their difference.
Haversine(lat1, lon1, lat2, lon2) == Abs(lat1 - lat2) + Abs(lon1 - lon2)

RECURSIVE WeatherProduct(_, _)
WeatherProduct(mods, current_hour) ==
    IF mods = <<>> THEN 1
    ELSE (IF IsHourInWindow(current_hour, Head(mods).start_hour, Head(mods).end_hour)
          THEN Head(mods).multiplier ELSE 1)
         * WeatherProduct(Tail(mods), current_hour)

\* an event modifier applied in its window whatever the distance
EventFactorNoGate(m, current_hour, station_lat, station_lon) ==
    IF IsHourInWindow(current_hour, m.start_hour, m.end_hour)
    THEN m.multiplier ELSE 1

EventFactor(m, current_hour, station_lat, station_lon) ==
    IF ~IsHourInWindow(current_hour, m.start_hour, m.end_hour) THEN 1
    ELSE IF m.scope = "geo" /\ station_lat # None /\ station_lon # None
         THEN IF m.latitude # None /\ m.longitude # None
                 /\ Haversine(station_lat, station_lon, m.latitude, m.longitude)
                        <= m.radius_km
              THEN m.multiplier ELSE 1
         ELSE IF m.scope = "global" THEN m.multiplier ELSE 1

RECURSIVE EventProduct(_, _, _, _)
EventProduct(mods, current_hour, station_lat, station_lon) ==
    IF mods = <<>> THEN 1
    ELSE EventFactor(Head(mods), current_hour, station_lat, station_lon)
         * EventProduct(Tail(mods), current_hour, station_lat, station_lon)

\* the weather and event contributions added instead of multiplied
ApplyDemandModifiersAdditive(c, current_hour) ==
    1 + (WeatherProduct(c.weather_modifiers, current_hour) - 1)
      + (EventProduct(c.event_modifiers, current_hour, c.lat, c.lon) - 1)

ApplyDemandModifiers(c, current_hour) ==
    WeatherProduct(c.weather_modifiers, current_hour)
    * EventProduct(c.event_modifiers, current_hour, c.lat, c.lon)

CalculateRate(c, t) ==
    c.base_rate * c.time_multipliers[HourOfDay(t)] * c.scenario_multiplier
    * ApplyDemandModifiers(c, HourOfDay(t))

\* random_state.exponential(1.0 / rate_per_minute): the standard-exponential
\* draw u scaled by 60 / rate, on the minute grid
Exponential(u, rate) == (u * 60) \div rate

\* mutant: a zero rate is treated as one arrival per minute
InterArrivalTimeMinute(c, t, u) ==
    IF CalculateRate(c, t) > 0 THEN Exponential(u, CalculateRate(c, t))
    ELSE 1

\* the gap generate_arrivals waits before the next arrival
InterArrivalTime(c, t, u) ==
    IF CalculateRate(c, t) > 0 THEN Exponential(u, CalculateRate(c, t))
    ELSE ZeroRateGap

----------------------------------------------------------------------------
\* Engine construction (engine.py)

\* the interval with the two boundaries moved to the longer interval
ComputeTimelineIntervalStrict(c) ==
    LET duration_minutes ==
            IF "duration_hours" \in DOMAIN c /\ c.duration_hours # None
            THEN c.duration_hours * 60
            ELSE c.simulation_duration
    IN  IF duration_minutes < 24 * 60 THEN 15
        ELSE IF duration_minutes < 168 * 60 THEN 60
        ELSE 240

\* _compute_timeline_interval: duration_hours when the configuration has
\* one, else simulation_duration / 60, compared here in minutes
ComputeTimelineInterval(c) ==
    LET duration_minutes ==
            IF "duration_hours" \in DOMAIN c /\ c.duration_hours # None
            THEN c.duration_hours * 60
            ELSE c.simulation_duration
    IN  IF duration_minutes <= 24 * 60 THEN 15
        ELSE IF duration_minutes <= 168 * 60 THEN 60
        ELSE 240

\* Station.__init__: the level of the pool
\* initial_level = initial_charged, without the cap at the charger count
InitialLevelUncapped(c) == c.initial_charged

InitialLevel(c) == Min(c.initial_charged, c.chargers)

InventoryEvent(t, lv, dep) ==
    [time |-> t, charged_count |-> lv, depleted_count |-> dep]

Event(t, prio, id, kind, c) ==
    [time |-> t, priority |-> prio, eid |-> id, kind |-> kind, customer |-> c]

\* one charge cycle launched for the whole shortfall instead of one per unit
FreshSingleCycle(c) ==
    LET lv == InitialLevel(c)
        dep == c.chargers - InitialLevel(c)
    IN [ now |-> 0,
         queue |->
            { Event(0, URGENT, i, "init_charge", 0) : i \in 0 .. Min(dep, 1) - 1 }
            \cup { Event(0, URGENT, dep, "init_arrivals", 0),
                   Event(0, URGENT, dep + 1, "init_hourly", 0),
                   Event(0, URGENT, dep + 2, "init_timeline", 0),
                   Event(c.simulation_duration, URGENT, dep + 3, "until", 0) },
         next_eid |-> dep + 4,
         level |-> lv,
         depleted_count |-> dep,
         inventory_events |-> << InventoryEvent(0, lv, dep) >> ]

\* the stop event scheduled one minute past the horizon
FreshLateStop(c) ==
    LET lv == InitialLevel(c)
        dep == c.chargers - InitialLevel(c)
    IN [ now |-> 0,
         queue |->
            { Event(0, URGENT, i, "init_charge", 0) : i \in 0 .. dep - 1 }
            \cup { Event(0, URGENT, dep, "init_arrivals", 0),
                   Event(0, URGENT, dep + 1, "init_hourly", 0),
                   Event(0, URGENT, dep + 2, "init_timeline", 0),
                   Event(c.simulation_duration + 1, URGENT, dep + 3, "until", 0) },
         next_eid |-> dep + 4,
         level |-> lv,
         depleted_count |-> dep,
         inventory_events |-> << InventoryEvent(0, lv, dep) >> ]

\* The state after SimulationEngine.setup() and the scheduling of the stop
\* event by env.run(until=simulation_duration): one Initialize event per
\* initially depleted unit, then the generator, the two samplers, the stop.
Fresh(c) ==
    LET lv == InitialLevel(c)
        dep == c.chargers - InitialLevel(c)
    IN [ now |-> 0,
         queue |->
            { Event(0, URGENT, i, "init_charge", 0) : i \in 0 .. dep - 1 }
            \cup { Event(0, URGENT, dep, "init_arrivals", 0),
                   Event(0, URGENT, dep + 1, "init_hourly", 0),
                   Event(0, URGENT, dep + 2, "init_timeline", 0),
                   Event(c.simulation_duration, URGENT, dep + 3, "until", 0) },
         next_eid |-> dep + 4,
         level |-> lv,
         depleted_count |-> dep,
         inventory_events |-> << InventoryEvent(0, lv, dep) >> ]

\* the result bundle of a finished run (_collect_results)
CollectResults ==
    [ cfg |-> cfg,
      stats |-> [ total_arrivals |-> total_arrivals,
                  successful_swaps |-> successful_swaps,
                  rejected_swaps |-> rejected_swaps,
                  total_wait_time |-> total_wait_time ],
      swap_events |-> swap_events,
      charge_events |-> charge_events,
      inventory_events |-> inventory_events,
      hourly_snapshots |-> hourly_snapshots,
      timeline_frames |-> frames ]

----------------------------------------------------------------------------
\* The environment's queue

\* mutant: the heap compares (time, priority) only
KeyLENoEid(e, f) ==
    \/ e.time < f.time
    \/ e.time = f.time /\ e.priority <= f.priority

\* heap order of the environment: (time, priority, eid)
KeyLE(e, f) ==
    \/ e.time < f.time
    \/ e.time = f.time /\ e.priority < f.priority
    \/ e.time = f.time /\ e.priority = f.priority /\ e.eid <= f.eid

\* e is popped by the next env.step()
IsNext(e) == status = "running" /\ e \in queue /\ \A f \in queue : KeyLE(e, f)

----------------------------------------------------------------------------
\* The pool of charged units (the container behind charged_store)

\* mutant: a fulfilled request does not lower the level
RECURSIVE TriggerGetKeepLevel(_, _, _)
TriggerGetKeepLevel(lv, gq, granted) ==
    IF gq # <<>> /\ lv >= 1
    THEN [TriggerGetKeepLevel(lv - 1, Tail(gq), Append(granted, Head(gq)))
            EXCEPT !.level = lv]
    ELSE [level |-> lv, get_queue |-> gq, granted |-> granted]

\* the pool serving the newest waiting request first
RECURSIVE TriggerGetNewestFirst(_, _, _)
TriggerGetNewestFirst(lv, gq, granted) ==
    IF gq # <<>> /\ lv >= 1
    THEN TriggerGetNewestFirst(lv - 1, SubSeq(gq, 1, Len(gq) - 1),
                               Append(granted, gq[Len(gq)]))
    ELSE [level |-> lv, get_queue |-> gq, granted |-> granted]

\* _trigger_get: serve the queued requests in order until one cannot be met
RECURSIVE TriggerGet(_, _, _)
TriggerGet(lv, gq, granted) ==
    IF gq # <<>> /\ lv >= 1
    THEN TriggerGet(lv - 1, Tail(gq), Append(granted, Head(gq)))
    ELSE [level |-> lv, get_queue |-> gq, granted |-> granted]

\* _trigger_put: accept the pending puts in order until one does not fit
RECURSIVE TriggerPut(_, _, _, _)
TriggerPut(lv, pq, capacity, served) ==
    IF pq > 0 /\ capacity - lv >= 1
    THEN TriggerPut(lv + 1, pq - 1, capacity, served + 1)
    ELSE [level |-> lv, put_queue |-> pq, served |-> served]

\* the requests in `granted` have succeeded: each is triggered and scheduled
Grant(cu, granted) ==
    [d \in DOMAIN cu |->
        IF \E i \in DOMAIN granted : granted[i] = d
        THEN [cu[d] EXCEPT !.req = "triggered"] ELSE cu[d]]

\* the timeout path without the cancel: the request stays in the queue
CancelRequestKept(gq, c) == gq

\* Get.cancel(): withdraw a request that has not been triggered
CancelRequest(gq, c) == SelectSeq(gq, LAMBDA d : d # c)

----------------------------------------------------------------------------
\* Station: event records (station.py)

\* a swap event built without its wait_time argument (the default 0.0)
SwapEventNoWait(t, type, c, wait) ==
    [time |-> t, event_type |-> type, customer_id |-> c, wait_time |-> 0]

SwapEvent(t, type, c, wait) ==
    [time |-> t, event_type |-> type, customer_id |-> c, wait_time |-> wait]

ChargeEvent(t, type) == [time |-> t, event_type |-> type]

----------------------------------------------------------------------------
\* Variable groups

envVars == <<now, queue, next_eid, status>>
poolVars == <<level, get_queue, put_queue>>
statVars == <<total_arrivals, successful_swaps, rejected_swaps, total_wait_time>>
logVars == <<swap_events, charge_events, inventory_events>>
samplerVars == <<hourly_snapshots, frames, next_snapshot_time>>
runVars == <<cfg, draws, run_no, prev, applyVars, callVars>>

----------------------------------------------------------------------------
\* Station._charge_cycle

\* the chargers of a station charging one unit after the other
ChargeCycleStartSerial ==
    \E e \in queue :
        /\ IsNext(e) /\ e.kind = "init_charge"
        /\ now' = e.time
        /\ charge_events' = Append(charge_events, ChargeEvent(e.time, "charge_start"))
        /\ charging_count' = charging_count + 1
        /\ queue' = (queue \ {e})
                \cup { Event(e.time + cfg.charge_duration * (charging_count + 1),
                             NORMAL, next_eid, "charge_timeout", 0) }
        /\ next_eid' = next_eid + 1
        /\ UNCHANGED <<status, poolVars, depleted_count, statVars, swap_events,
                       inventory_events, customer_counter, cust, samplerVars,
                       draw_idx, runVars>>

\* first segment: charge_start is logged and the charge timer is set
ChargeCycleStart ==
    \E e \in queue :
        /\ IsNext(e) /\ e.kind = "init_charge"
        /\ now' = e.time
        /\ charge_events' = Append(charge_events, ChargeEvent(e.time, "charge_start"))
        /\ charging_count' = charging_count + 1
        /\ queue' = (queue \ {e})
                \cup { Event(e.time + cfg.charge_duration, NORMAL, next_eid, "charge_timeout", 0) }
        /\ next_eid' = next_eid + 1
        /\ UNCHANGED <<status, poolVars, depleted_count, statVars, swap_events,
                       inventory_events, customer_counter, cust, samplerVars,
                       draw_idx, runVars>>

\* second segment: charge_end, the unit is put back (the put is accepted at
\* once when the pool has room, and waits in put_queue otherwise)
ChargeCycleEnd ==
    \E e \in queue :
        /\ IsNext(e) /\ e.kind = "charge_timeout"
        /\ now' = e.time
        /\ charge_events' = Append(charge_events, ChargeEvent(e.time, "charge_end"))
        /\ charging_count' = charging_count - 1
        /\ depleted_count' = depleted_count - 1
        /\ LET tp == TriggerPut(level, put_queue + 1, cfg.chargers, 0)
           IN /\ level' = tp.level
              /\ put_queue' = tp.put_queue
              /\ queue' = (queue \ {e})
                    \cup { Event(e.time, NORMAL, next_eid + i - 1, "put", 0) : i \in 1 .. tp.served }
              /\ next_eid' = next_eid + tp.served
        /\ UNCHANGED <<status, get_queue, statVars, swap_events, inventory_events,
                       customer_counter, cust, samplerVars, draw_idx, runVars>>

\* the put event is processed: the pool serves waiting requests, then the
\* charge cycle resumes, logs the inventory and ends
ChargeCyclePutDone ==
    \E e \in queue :
        /\ IsNext(e) /\ e.kind = "put"
        /\ now' = e.time
        /\ LET tg == TriggerGet(level, get_queue, <<>>)
           IN /\ level' = tg.level
              /\ get_queue' = tg.get_queue
              /\ cust' = Grant(cust, tg.granted)
              /\ queue' = (queue \ {e})
                    \cup { Event(e.time, NORMAL, next_eid + i - 1, "get", tg.granted[i])
                           : i \in DOMAIN tg.granted }
              /\ next_eid' = next_eid + Len(tg.granted)
              /\ inventory_events' =
                    Append(inventory_events, InventoryEvent(e.time, tg.level, depleted_count))
        /\ UNCHANGED <<status, put_queue, depleted_count, charging_count, statVars,
                       swap_events, charge_events, customer_counter, samplerVars,
                       draw_idx, runVars>>

----------------------------------------------------------------------------
\* DemandGenerator.generate_arrivals

\* the generator held up for the length of a swap before its next wait
NextArrivalAfterSwap(e, k, idx) ==
    Event(e.time + cfg.swap_duration
              + InterArrivalTime(cfg, e.time, draws[idx + 1]),
          NORMAL, next_eid + k, "arrival_timeout", 0)

\* the generator's next wait: it draws from the stream only when the rate
\* is positive
NextArrival(e, k, idx) ==
    Event(e.time + InterArrivalTime(cfg, e.time, draws[idx + 1]),
          NORMAL, next_eid + k, "arrival_timeout", 0)

DrawsAfter(t, idx) == IF CalculateRate(cfg, t) > 0 THEN idx + 1 ELSE idx

\* first iteration: only the wait for the first arrival
GenerateArrivalsStart ==
    \E e \in queue :
        /\ IsNext(e) /\ e.kind = "init_arrivals"
        /\ now' = e.time
        /\ queue' = (queue \ {e}) \cup { NextArrival(e, 0, draw_idx) }
        /\ next_eid' = next_eid + 1
        /\ draw_idx' = DrawsAfter(e.time, draw_idx)
        /\ UNCHANGED <<status, poolVars, depleted_count, charging_count, statVars,
                       logVars, customer_counter, cust, samplerVars, runVars>>

\* the generator emitting no customer after a wait at rate zero
GenerateArrivalSkipZero ==
    \E e \in queue :
        /\ IsNext(e) /\ e.kind = "arrival_timeout"
        /\ now' = e.time
        /\ IF cfg.base_rate = 0
           THEN /\ queue' = (queue \ {e}) \cup { NextArrival(e, 0, draw_idx) }
                /\ next_eid' = next_eid + 1
                /\ UNCHANGED <<customer_counter, cust, draw_idx>>
           ELSE /\ customer_counter' = customer_counter + 1
                /\ cust' = [d \in 1 .. customer_counter + 1 |->
                              IF d <= customer_counter THEN cust[d]
                              ELSE [pos |-> "spawned", req |-> "none", cond |-> "none",
                                    tmo |-> "none", arrival_time |-> e.time,
                                    wait_time |-> 0]]
                /\ IF customer_counter + 1 < MaxArrivals
                   THEN /\ queue' = (queue \ {e})
                              \cup { Event(e.time, URGENT, next_eid, "init_swap", customer_counter + 1),
                                     NextArrival(e, 1, draw_idx) }
                        /\ next_eid' = next_eid + 2
                        /\ draw_idx' = DrawsAfter(e.time, draw_idx)
                   ELSE /\ queue' = (queue \ {e})
                              \cup { Event(e.time, URGENT, next_eid, "init_swap", customer_counter + 1) }
                        /\ next_eid' = next_eid + 1
                        /\ draw_idx' = draw_idx
        /\ UNCHANGED <<status, poolVars, depleted_count, charging_count, statVars,
                       logVars, samplerVars, runVars>>

\* the inter-arrival wait is over: a customer is created, its process_swap
\* is spawned (not awaited) and the next wait is drawn
GenerateArrival ==
    \E e \in queue :
        /\ IsNext(e) /\ e.kind = "arrival_timeout"
        /\ now' = e.time
        /\ customer_counter' = customer_counter + 1
        /\ cust' = [d \in 1 .. customer_counter + 1 |->
                      IF d <= customer_counter THEN cust[d]
                      ELSE [pos |-> "spawned", req |-> "none", cond |-> "none",
                            tmo |-> "none", arrival_time |-> e.time,
                            wait_time |-> 0]]
        /\ IF customer_counter + 1 < MaxArrivals
           THEN /\ queue' = (queue \ {e})
                      \cup { Event(e.time, URGENT, next_eid, "init_swap", customer_counter + 1),
                             NextArrival(e, 1, draw_idx) }
                /\ next_eid' = next_eid + 2
                /\ draw_idx' = DrawsAfter(e.time, draw_idx)
           ELSE /\ queue' = (queue \ {e})
                      \cup { Event(e.time, URGENT, next_eid, "init_swap", customer_counter + 1) }
                /\ next_eid' = next_eid + 1
                /\ draw_idx' = draw_idx
        /\ UNCHANGED <<status, poolVars, depleted_count, charging_count, statVars,
                       logVars, samplerVars, runVars>>

----------------------------------------------------------------------------
\* Station.process_swap

\* first segment: the arrival is recorded, one unit is requested from the
\* pool and the patience timer is set; the process waits for either
ProcessSwapArrive ==
    \E e \in queue :
        /\ IsNext(e) /\ e.kind = "init_swap"
        /\ now' = e.time
        /\ total_arrivals' = total_arrivals + 1
        /\ swap_events' = Append(swap_events, SwapEvent(e.time, "arrival", e.customer, 0))
        /\ LET tg == TriggerGet(level, Append(get_queue, e.customer), <<>>)
               n == Len(tg.granted)
               mine == [cust[e.customer] EXCEPT !.pos = "racing", !.req = "queued",
                                                !.cond = "pending", !.tmo = "scheduled",
                                                !.arrival_time = e.time]
           IN /\ level' = tg.level
              /\ get_queue' = tg.get_queue
              /\ cust' = Grant([cust EXCEPT ![e.customer] = mine], tg.granted)
              /\ queue' = (queue \ {e})
                    \cup { Event(e.time, NORMAL, next_eid + i - 1, "get", tg.granted[i])
                           : i \in DOMAIN tg.granted }
                    \cup { Event(e.time + cfg.max_wait_time, NORMAL, next_eid + n,
                                 "patience_timeout", e.customer) }
              /\ next_eid' = next_eid + n + 1
        /\ UNCHANGED <<status, put_queue, depleted_count, charging_count,
                       successful_swaps, rejected_swaps, total_wait_time,
                       charge_events, inventory_events, customer_counter,
                       samplerVars, draw_idx, runVars>>

\* Condition._check: the first of the two events to be processed triggers
\* the condition the process waits on
CheckCondition(cu, c) == IF cu[c].cond = "pending" THEN "triggered" ELSE cu[c].cond

\* mutant: the condition is triggered by each of its events
ConditionEventsEach(cu, c, t, k) == { Event(t, NORMAL, next_eid + k, "cond", c) }

ConditionEvents(cu, c, t, k) ==
    IF cu[c].cond = "pending"
    THEN { Event(t, NORMAL, next_eid + k, "cond", c) } ELSE {}

\* the request's event is processed: the pool looks at its pending puts and
\* the condition is checked
RequestProcessed ==
    \E e \in queue :
        /\ IsNext(e) /\ e.kind = "get"
        /\ now' = e.time
        /\ LET tp == TriggerPut(level, put_queue, cfg.chargers, 0)
               evs == ConditionEvents(cust, e.customer, e.time, tp.served)
           IN /\ level' = tp.level
              /\ put_queue' = tp.put_queue
              /\ cust' = [cust EXCEPT ![e.customer].req = "processed",
                                      ![e.customer].cond = CheckCondition(cust, e.customer)]
              /\ queue' = (queue \ {e})
                    \cup { Event(e.time, NORMAL, next_eid + i - 1, "put", 0) : i \in 1 .. tp.served }
                    \cup evs
              /\ next_eid' = next_eid + tp.served + Cardinality(evs)
        /\ UNCHANGED <<status, get_queue, depleted_count, charging_count, statVars,
                       logVars, customer_counter, samplerVars, draw_idx, runVars>>

\* the patience timer is processed
PatienceTimeout ==
    \E e \in queue :
        /\ IsNext(e) /\ e.kind = "patience_timeout"
        /\ now' = e.time
        /\ LET evs == ConditionEvents(cust, e.customer, e.time, 0)
           IN /\ cust' = [cust EXCEPT ![e.customer].tmo = "processed",
                                      ![e.customer].cond = CheckCondition(cust, e.customer)]
              /\ queue' = (queue \ {e}) \cup evs
              /\ next_eid' = next_eid + Cardinality(evs)
        /\ UNCHANGED <<status, poolVars, depleted_count, charging_count, statVars,
                       logVars, customer_counter, samplerVars, draw_idx, runVars>>

\* `battery_request in result`: the condition's value holds the events that
\* were processed when the condition itself is processed
RequestInResult(cu, c) == cu[c].req = "processed"

\* `battery_request.triggered`
RequestTriggered(cu, c) == cu[c].req \in {"triggered", "processed"}

\* the condition is processed, success path: swap_start, then the swap
ProcessSwapStart ==
    \E e \in queue :
        /\ IsNext(e) /\ e.kind = "cond"
        /\ RequestInResult(cust, e.customer)
        /\ now' = e.time
        /\ total_wait_time' = total_wait_time + (e.time - cust[e.customer].arrival_time)
        /\ swap_events' = Append(swap_events,
                SwapEvent(e.time, "swap_start", e.customer,
                          e.time - cust[e.customer].arrival_time))
        /\ cust' = [cust EXCEPT ![e.customer].cond = "processed",
                                ![e.customer].pos = "swapping",
                                ![e.customer].wait_time =
                                    e.time - cust[e.customer].arrival_time]
        /\ queue' = (queue \ {e})
                \cup { Event(e.time + cfg.swap_duration, NORMAL, next_eid,
                             "swap_timeout", e.customer) }
        /\ next_eid' = next_eid + 1
        /\ UNCHANGED <<status, poolVars, depleted_count, charging_count,
                       total_arrivals, successful_swaps, rejected_swaps,
                       charge_events, inventory_events, customer_counter,
                       samplerVars, draw_idx, runVars>>

\* the condition is processed, timeout path: the request is cancelled if it
\* has not been triggered, and the customer is rejected
ProcessSwapReject ==
    \E e \in queue :
        /\ IsNext(e) /\ e.kind = "cond"
        /\ ~RequestInResult(cust, e.customer)
        /\ now' = e.time
        /\ IF ~RequestTriggered(cust, e.customer)
           THEN /\ get_queue' = CancelRequest(get_queue, e.customer)
                /\ cust' = [cust EXCEPT ![e.customer].cond = "processed",
                                        ![e.customer].pos = "rejected",
                                        ![e.customer].req = "cancelled"]
           ELSE /\ get_queue' = get_queue
                /\ cust' = [cust EXCEPT ![e.customer].cond = "processed",
                                        ![e.customer].pos = "rejected"]
        /\ rejected_swaps' = rejected_swaps + 1
        /\ swap_events' = Append(swap_events,
                SwapEvent(e.time, "rejected", e.customer, cfg.max_wait_time))
        /\ queue' = queue \ {e}
        /\ UNCHANGED <<next_eid, status, level, put_queue, depleted_count,
                       charging_count, total_arrivals, successful_swaps,
                       total_wait_time, charge_events, inventory_events,
                       customer_counter, samplerVars, draw_idx, runVars>>

\* the swap ends without a charge cycle for the returned unit
ProcessSwapEndNoCharge ==
    \E e \in queue :
        /\ IsNext(e) /\ e.kind = "swap_timeout"
        /\ now' = e.time
        /\ successful_swaps' = successful_swaps + 1
        /\ depleted_count' = depleted_count + 1
        /\ swap_events' = Append(swap_events,
                SwapEvent(e.time, "swap_end", e.customer, cust[e.customer].wait_time))
        /\ inventory_events' =
                Append(inventory_events, InventoryEvent(e.time, level, depleted_count + 1))
        /\ cust' = [cust EXCEPT ![e.customer].pos = "served"]
        /\ queue' = queue \ {e}
        /\ UNCHANGED <<next_eid, status, poolVars, charging_count, total_arrivals,
                       rejected_swaps, total_wait_time, charge_events,
                       customer_counter, samplerVars, draw_idx, runVars>>

\* the swap is over: the counters, swap_end, the inventory log, and a charge
\* cycle is spawned for the returned unit
ProcessSwapEnd ==
    \E e \in queue :
        /\ IsNext(e) /\ e.kind = "swap_timeout"
        /\ now' = e.time
        /\ successful_swaps' = successful_swaps + 1
        /\ depleted_count' = depleted_count + 1
        /\ swap_events' = Append(swap_events,
                SwapEvent(e.time, "swap_end", e.customer, cust[e.customer].wait_time))
        /\ inventory_events' =
                Append(inventory_events, InventoryEvent(e.time, level, depleted_count + 1))
        /\ cust' = [cust EXCEPT ![e.customer].pos = "served"]
        /\ queue' = (queue \ {e})
                \cup { Event(e.time, URGENT, next_eid, "init_charge", 0) }
        /\ next_eid' = next_eid + 1
        /\ UNCHANGED <<status, poolVars, charging_count, total_arrivals,
                       rejected_swaps, total_wait_time, charge_events,
                       customer_counter, samplerVars, draw_idx, runVars>>

----------------------------------------------------------------------------
\* The two samplers (engine.py, timeline_recorder.py)

\* the snapshot reading the length of the pool's other queue
HourlySnapshotPutQueue(t) ==
    [ hour |-> t \div 60,
      time_minutes |-> t,
      charged_inventory |-> level,
      depleted_inventory |-> depleted_count,
      queue_length |-> put_queue,
      total_arrivals |-> total_arrivals,
      successful_swaps |-> successful_swaps,
      rejected_swaps |-> rejected_swaps ]

HourlySnapshot(t) ==
    [ hour |-> t \div 60,
      time_minutes |-> t,
      charged_inventory |-> level,
      depleted_inventory |-> depleted_count,
      queue_length |-> Len(get_queue),
      total_arrivals |-> total_arrivals,
      successful_swaps |-> successful_swaps,
      rejected_swaps |-> rejected_swaps ]

\* one iteration of _collect_hourly_snapshots
CollectHourlySnapshot ==
    \E e \in queue :
        /\ IsNext(e) /\ e.kind \in {"init_hourly", "hourly_timeout"}
        /\ now' = e.time
        /\ hourly_snapshots' = Append(hourly_snapshots, HourlySnapshot(e.time))
        /\ queue' = (queue \ {e})
                \cup { Event(e.time + HourlyPeriod, NORMAL, next_eid, "hourly_timeout", 0) }
        /\ next_eid' = next_eid + 1
        /\ UNCHANGED <<status, poolVars, depleted_count, charging_count, statVars,
                       logVars, customer_counter, cust, frames, next_snapshot_time,
                       draw_idx, runVars>>

\* the frame counting every charger that holds no charged unit as in use
CaptureSnapshotNotCharged(t) ==
    [ timestamp_min |-> t,
      queue_length |-> Len(get_queue),
      batteries_available |-> level,
      chargers_in_use |-> cfg.chargers - level,
      swaps_completed |-> successful_swaps,
      swaps_lost |-> rejected_swaps ]

\* TimelineRecorder._capture_snapshot
CaptureSnapshot(t) ==
    [ timestamp_min |-> t,
      queue_length |-> Len(get_queue),
      batteries_available |-> level,
      chargers_in_use |-> charging_count,
      swaps_completed |-> successful_swaps,
      swaps_lost |-> rejected_swaps ]

\* the recorder waiting until the threshold has been passed
RecordTimelineAfterThreshold ==
    \E e \in queue :
        /\ IsNext(e) /\ e.kind \in {"init_timeline", "tick_timeout"}
        /\ now' = e.time
        /\ IF e.time <= next_snapshot_time
           THEN UNCHANGED <<frames, next_snapshot_time>>
           ELSE /\ frames' = Append(frames, CaptureSnapshot(e.time))
                /\ next_snapshot_time' = next_snapshot_time + ComputeTimelineInterval(cfg)
        /\ queue' = (queue \ {e})
                \cup { Event(e.time + TickPeriod, NORMAL, next_eid, "tick_timeout", 0) }
        /\ next_eid' = next_eid + 1
        /\ UNCHANGED <<status, poolVars, depleted_count, charging_count, statVars,
                       logVars, customer_counter, cust, hourly_snapshots,
                       draw_idx, runVars>>

\* one iteration of _record_timeline: TimelineRecorder.tick, then a minute
RecordTimeline ==
    \E e \in queue :
        /\ IsNext(e) /\ e.kind \in {"init_timeline", "tick_timeout"}
        /\ now' = e.time
        /\ IF e.time < next_snapshot_time
           THEN UNCHANGED <<frames, next_snapshot_time>>
           ELSE /\ frames' = Append(frames, CaptureSnapshot(e.time))
                /\ next_snapshot_time' = next_snapshot_time + ComputeTimelineInterval(cfg)
        /\ queue' = (queue \ {e})
                \cup { Event(e.time + TickPeriod, NORMAL, next_eid, "tick_timeout", 0) }
        /\ next_eid' = next_eid + 1
        /\ UNCHANGED <<status, poolVars, depleted_count, charging_count, statVars,
                       logVars, customer_counter, cust, hourly_snapshots,
                       draw_idx, runVars>>

\* the stop event of env.run(until=simulation_duration): the run ends and
\* the results are collected
StopSimulation ==
    \E e \in queue :
        /\ IsNext(e) /\ e.kind = "until"
        /\ now' = e.time
        /\ status' = "finished"
        /\ queue' = queue \ {e}
        /\ UNCHANGED <<next_eid, poolVars, depleted_count, charging_count, statVars,
                       logVars, customer_counter, cust, samplerVars, draw_idx, runVars>>

----------------------------------------------------------------------------
\* Scenario application (scenarios/applicator.py). Configurations are Python
\* objects: heap maps an address to the object stored there, lists are
\* objects of their own, and an attribute holding an object holds its address.

\* the dataclass fields of StationConfig (what hasattr finds on a station)
StationAttrs == {"station_id", "tier", "chargers", "inventory_capacity",
                 "lat", "lon", "initial_charged"}

\* the dataclass fields of OperationalConfig
OperationalParams == {"swap_duration", "charge_duration",
                      "replenishment_threshold", "replenishment_amount",
                      "replenishment_delay"}

HasAttr(obj, attr) ==
    IF obj.kind = "station" THEN attr \in StationAttrs
    ELSE attr \in OperationalParams

StationConfig(id, tier, chargers, capacity) ==
    [kind |-> "station", station_id |-> id, tier |-> tier,
     chargers |-> chargers, inventory_capacity |-> capacity,
     lat |-> 0, lon |-> 0, initial_charged |-> capacity,
     replenishment_policy |-> "unset", replenishment_params |-> None]

OperationalConfig ==
    [kind |-> "operations", swap_duration |-> 2, charge_duration |-> 210,
     replenishment_threshold |-> 2, replenishment_amount |-> 10,
     replenishment_delay |-> 30]

ListObject(items) == [kind |-> "list", items |-> items]

NoError == [kind |-> "none", station |-> "", name |-> ""]

ValueError(station, name) ==
    [kind |-> "ValueError", station |-> station, name |-> name]

\* the objects at a sequence of addresses
RECURSIVE Deref(_, _)
Deref(h, addrs) ==
    IF addrs = <<>> THEN <<>>
    ELSE <<h[Head(addrs)]>> \o Deref(h, Tail(addrs))

\* the addresses first .. first + k - 1
RECURSIVE Addresses(_, _)
Addresses(first, k) ==
    IF k = 0 THEN <<>> ELSE <<first>> \o Addresses(first + 1, k - 1)

Range(seq) == { seq[i] : i \in DOMAIN seq }

StationList(h, c) == h[h[c].stations].items

\* the value of a configuration with every reference followed
ConfigValue(h, c) ==
    [ stations |-> Deref(h, StationList(h, c)),
      scenario_multiplier |-> h[h[c].demand].scenario_multiplier,
      weather_modifiers |-> h[h[h[c].demand].weather_modifiers].items,
      event_modifiers |-> h[h[h[c].demand].event_modifiers].items,
      operations |-> h[h[c].operations],
      simulation_duration |-> h[c].simulation_duration,
      random_seed |-> h[c].random_seed ]

\* copy.copy(baseline): a new configuration object over the same parts
ShallowCopyBaseline(h, c) == h \o << h[c] >>

\* ConfigLoader.deep_copy_baseline: the copy is at address Len(h) + 1 and
\* shares no object with the original
DeepCopyBaseline(h, c) ==
    LET n == Len(h)
        dem == h[h[c].demand]
        st == StationList(h, c)
    IN  h \o << [h[c] EXCEPT !.stations = n + 2, !.demand = n + 3,
                             !.operations = n + 6],
                ListObject(Addresses(n + 7, Len(st))),
                [dem EXCEPT !.weather_modifiers = n + 4,
                            !.event_modifiers = n + 5],
                h[dem.weather_modifiers],
                h[dem.event_modifiers],
                h[h[c].operations] >>
          \o Deref(h, st)

\* stations.extend(...) putting the new stations first
ExtendStationsFront(h, mc, added) ==
    LET n == Len(h)
    IN  [ (h \o Deref(h, added))
            EXCEPT ![h[mc].stations].items = Addresses(n + 1, Len(added)) \o @ ]

\* modified_config.stations.extend(copy.deepcopy(scenario.add_stations))
ExtendStations(h, mc, added) ==
    LET n == Len(h)
    IN  [ (h \o Deref(h, added))
            EXCEPT ![h[mc].stations].items = @ \o Addresses(n + 1, Len(added)) ]

\* modified_config.stations = [s for s in ... if s.station_id not in ids]
FilterStations(h, mc, ids) ==
    LET kept == SelectSeq(StationList(h, mc),
                          LAMBDA a : h[a].station_id \notin ids)
    IN  [ (h \o << ListObject(kept) >>) EXCEPT ![mc].stations = Len(h) + 1 ]

\* a dict is the sequence of its entries in insertion order
Keys(d) == { d[i].key : i \in DOMAIN d }

Lookup(d, k) == (CHOOSE e \in Range(d) : e.key = k).value

\* for name, value in changes.items(): setattr, or raise on the first
\* name the object does not have (the earlier ones stay set)
RECURSIVE SetAttrs(_, _, _, _)
SetAttrs(h, a, changes, who) ==
    IF changes = <<>> THEN [heap |-> h, error |-> NoError]
    ELSE LET ch == Head(changes)
         IN  IF HasAttr(h[a], ch.key)
             THEN SetAttrs([h EXCEPT ![a][ch.key] = ch.value], a,
                           Tail(changes), who)
             ELSE [heap |-> h, error |-> ValueError(who, ch.key)]

\* only the first station of each id receives the overrides
RECURSIVE ModifyStationsFirstOfId(_, _, _, _)
ModifyStationsFirstOfId(h, stations, modifications, i) ==
    IF i > Len(stations) THEN [heap |-> h, error |-> NoError]
    ELSE LET a == stations[i]
             id == h[a].station_id
         IN  IF /\ id \in Keys(modifications)
                /\ \A j \in 1 .. i - 1 : h[stations[j]].station_id # id
             THEN LET r == SetAttrs(h, a, Lookup(modifications, id), id)
                  IN  IF r.error # NoError THEN r
                      ELSE ModifyStationsFirstOfId(r.heap, stations, modifications, i + 1)
             ELSE ModifyStationsFirstOfId(h, stations, modifications, i + 1)

\* _modify_stations, from the i-th station of the list on
RECURSIVE ModifyStations(_, _, _, _)
ModifyStations(h, stations, modifications, i) ==
    IF i > Len(stations) THEN [heap |-> h, error |-> NoError]
    ELSE LET a == stations[i]
             id == h[a].station_id
         IN  IF id \in Keys(modifications)
             THEN LET r == SetAttrs(h, a, Lookup(modifications, id), id)
                  IN  IF r.error # NoError THEN r
                      ELSE ModifyStations(r.heap, stations, modifications, i + 1)
             ELSE ModifyStations(h, stations, modifications, i + 1)

\* _apply_operations_override
ApplyOperationsOverride(h, operations, overrides) ==
    SetAttrs(h, operations, overrides, "")

\* dict.get(key, default); an absent key is written None
Get(value, default) == IF value = None THEN default ELSE value

WeatherModifier(intervention) ==
    [ scope |-> "global",
      multiplier |-> Get(intervention.multiplier, 1),
      start_hour |-> Get(intervention.start_hour, 0),
      end_hour |-> Get(intervention.end_hour, 24) ]

RECURSIVE WeatherModifiers(_)
WeatherModifiers(interventions) ==
    IF interventions = <<>> THEN <<>>
    ELSE <<WeatherModifier(Head(interventions))>>
           \o WeatherModifiers(Tail(interventions))

\* _apply_weather_demand
ApplyWeatherDemand(h, mc, interventions) ==
    [h EXCEPT ![h[h[mc].demand].weather_modifiers].items =
                  @ \o WeatherModifiers(interventions)]

EventModifier(intervention) ==
    [ scope |-> "geo",
      latitude |-> intervention.latitude,
      longitude |-> intervention.longitude,
      radius_km |-> Get(intervention.radius_km, 5),
      multiplier |-> Get(intervention.multiplier, 1),
      start_hour |-> Get(intervention.start_hour, 0),
      end_hour |-> Get(intervention.end_hour, 24) ]

RECURSIVE EventModifiers(_)
EventModifiers(interventions) ==
    IF interventions = <<>> THEN <<>>
    ELSE <<EventModifier(Head(interventions))>>
           \o EventModifiers(Tail(interventions))

\* _apply_event_demand
ApplyEventDemand(h, mc, interventions) ==
    [h EXCEPT ![h[h[mc].demand].event_modifiers].items =
                  @ \o EventModifiers(interventions)]

\* the stations one policy intervention is stored on: the first station
\* with the given id, or every station when the id is absent or empty
PolicyTargets(h, stations, station_id) ==
    IF station_id = "" THEN Range(stations)
    ELSE LET hits == { i \in DOMAIN stations :
                          h[stations[i]].station_id = station_id }
         IN  IF hits = {} THEN {}
             ELSE { stations[CHOOSE i \in hits : \A j \in hits : i <= j] }

\* intervention.get("policy", "base_stock"); an absent key is written ""
PolicyOf(intervention) ==
    IF intervention.policy = "" THEN "base_stock" ELSE intervention.policy

\* one intervention of _apply_replenishment_policies, station by station
RECURSIVE SetPolicy(_, _, _)
SetPolicy(h, targets, iv) ==
    IF targets = {} THEN h
    ELSE LET a == CHOOSE x \in targets : TRUE
         IN  SetPolicy([h EXCEPT ![a].replenishment_policy = PolicyOf(iv),
                                 ![a].replenishment_params = iv.params],
                       targets \ {a}, iv)

\* _apply_replenishment_policies
RECURSIVE ApplyReplenishmentPolicies(_, _, _)
ApplyReplenishmentPolicies(h, mc, interventions) ==
    IF interventions = <<>> THEN h
    ELSE LET iv == Head(interventions)
             targets == PolicyTargets(h, StationList(h, mc), iv.station_id)
         IN  ApplyReplenishmentPolicies(SetPolicy(h, targets, iv), mc,
                                        Tail(interventions))

\* the caller's value when the exception leaves apply_scenario
PropagateReturning(mc) == mc

\* raise ValueError(...): nothing in apply_scenario catches it, so the
\* caller receives no configuration
Propagate(mc) == None

applyLocals == <<baseline, before, scenario>>

\* modified_config = ConfigLoader.deep_copy_baseline(baseline)
ApplyDeepCopy ==
    /\ apply_pc = "start"
    /\ heap' = DeepCopyBaseline(heap, baseline)
    /\ modified_config' = Len(heap) + 1
    /\ apply_pc' = "add"
    /\ UNCHANGED <<applyLocals, result, error, simVars, callVars>>

\* if scenario.add_stations: extend with deep copies
ApplyAddStations ==
    /\ apply_pc = "add"
    /\ heap' = IF scenario.add_stations # <<>>
               THEN ExtendStations(heap, modified_config, scenario.add_stations)
               ELSE heap
    /\ apply_pc' = "remove"
    /\ UNCHANGED <<applyLocals, modified_config, result, error, simVars, callVars>>

\* if scenario.remove_station_ids: rebuild the list without them
ApplyRemoveStations ==
    /\ apply_pc = "remove"
    /\ heap' = IF scenario.remove_station_ids # {}
               THEN FilterStations(heap, modified_config,
                                   scenario.remove_station_ids)
               ELSE heap
    /\ apply_pc' = "modify"
    /\ UNCHANGED <<applyLocals, modified_config, result, error, simVars, callVars>>

\* if scenario.modify_stations: _modify_stations(...)
ApplyModifyStations ==
    /\ apply_pc = "modify"
    /\ LET r == IF scenario.modify_stations # <<>>
                THEN ModifyStations(heap, StationList(heap, modified_config),
                                    scenario.modify_stations, 1)
                ELSE [heap |-> heap, error |-> NoError]
       IN  /\ heap' = r.heap
           /\ error' = r.error
           /\ apply_pc' = IF r.error = NoError THEN "multiplier" ELSE "raised"
           /\ result' = IF r.error = NoError THEN result
                        ELSE Propagate(modified_config)
    /\ UNCHANGED <<applyLocals, modified_config, simVars, callVars>>

\* if scenario.demand_multiplier: (a multiplier of 0 is skipped)
ApplyDemandMultiplierTruthy ==
    /\ apply_pc = "multiplier"
    /\ heap' = IF scenario.demand_multiplier \notin {None, 0}
               THEN [heap EXCEPT ![heap[modified_config].demand]
                                     .scenario_multiplier =
                                        scenario.demand_multiplier]
               ELSE heap
    /\ apply_pc' = "operations"
    /\ UNCHANGED <<applyLocals, modified_config, result, error, simVars, callVars>>

\* if scenario.demand_multiplier is not None: overwrite scenario_multiplier
ApplyDemandMultiplier ==
    /\ apply_pc = "multiplier"
    /\ heap' = IF scenario.demand_multiplier # None
               THEN [heap EXCEPT ![heap[modified_config].demand]
                                     .scenario_multiplier =
                                        scenario.demand_multiplier]
               ELSE heap
    /\ apply_pc' = "operations"
    /\ UNCHANGED <<applyLocals, modified_config, result, error, simVars, callVars>>

\* if scenario.operations_override: _apply_operations_override(...)
ApplyOperations ==
    /\ apply_pc = "operations"
    /\ LET r == IF scenario.operations_override # <<>>
                THEN ApplyOperationsOverride(heap,
                         heap[modified_config].operations,
                         scenario.operations_override)
                ELSE [heap |-> heap, error |-> NoError]
       IN  /\ heap' = r.heap
           /\ error' = r.error
           /\ apply_pc' = IF r.error = NoError THEN "weather" ELSE "raised"
           /\ result' = IF r.error = NoError THEN result
                        ELSE Propagate(modified_config)
    /\ UNCHANGED <<applyLocals, modified_config, simVars, callVars>>

\* if scenario.weather_demand: _apply_weather_demand(...)
ApplyWeather ==
    /\ apply_pc = "weather"
    /\ heap' = IF scenario.weather_demand # <<>>
               THEN ApplyWeatherDemand(heap, modified_config,
                                       scenario.weather_demand)
               ELSE heap
    /\ apply_pc' = "event"
    /\ UNCHANGED <<applyLocals, modified_config, result, error, simVars, callVars>>

\* if scenario.event_demand: _apply_event_demand(...)
ApplyEvent ==
    /\ apply_pc = "event"
    /\ heap' = IF scenario.event_demand # <<>>
               THEN ApplyEventDemand(heap, modified_config,
                                     scenario.event_demand)
               ELSE heap
    /\ apply_pc' = "replenishment"
    /\ UNCHANGED <<applyLocals, modified_config, result, error, simVars, callVars>>

\* if scenario.replenishment_policies: _apply_replenishment_policies(...)
ApplyReplenishment ==
    /\ apply_pc = "replenishment"
    /\ heap' = IF scenario.replenishment_policies # <<>>
               THEN ApplyReplenishmentPolicies(heap, modified_config,
                        scenario.replenishment_policies)
               ELSE heap
    /\ apply_pc' = "return"
    /\ UNCHANGED <<applyLocals, modified_config, result, error, simVars, callVars>>

\* return modified_config
ApplyReturn ==
    /\ apply_pc = "return"
    /\ result' = modified_config
    /\ apply_pc' = "returned"
    /\ UNCHANGED <<applyLocals, heap, modified_config, error, simVars, callVars>>

\* no scenario is being applied
EmptyScenario ==
    [ add_stations |-> <<>>, remove_station_ids |-> {},
      modify_stations |-> <<>>, demand_multiplier |-> None,
      operations_override |-> <<>>, weather_demand |-> <<>>,
      event_demand |-> <<>>, replenishment_policies |-> <<>> ]

ApplyIdle ==
    /\ heap = <<>>
    /\ baseline = None
    /\ before = <<>>
    /\ scenario = EmptyScenario
    /\ modified_config = None
    /\ result = None
    /\ error = NoError
    /\ apply_pc = "idle"

\* no function is being called on its own
CallIdle ==
    /\ call = [fn |-> "none"]
    /\ ret = <<>>

----------------------------------------------------------------------------
\* Configurations and random streams of the model

Hours == 0 .. 23

FlatProfile == [h \in Hours |-> 1]

\* no demand in the first hour of the day
QuietFirstHour == [h \in Hours |-> IF h = 0 THEN 0 ELSE 1]

BaseConfig ==
    [ chargers |-> 1, initial_charged |-> 1, swap_duration |-> 2,
      charge_duration |-> 3, max_wait_time |-> 2, base_rate |-> 60,
      time_multipliers |-> FlatProfile, scenario_multiplier |-> 1,
      weather_modifiers |-> <<>>, event_modifiers |-> <<>>,
      lat |-> 0, lon |-> 0, simulation_duration |-> 12 ]

\* a busy station over a short horizon
BusyConfigs ==
    { [BaseConfig EXCEPT !.chargers = n, !.initial_charged = i,
                         !.swap_duration = s, !.max_wait_time = w]
      : n \in {1, 2}, i \in {0, 1, 2}, s \in {1, 2}, w \in {1, 2} }

\* a station with no demand, or none in the first hour, over two hours
QuietConfigs ==
    { [BaseConfig EXCEPT !.chargers = n, !.initial_charged = i,
                         !.base_rate = r, !.time_multipliers = QuietFirstHour,
                         !.charge_duration = d, !.max_wait_time = DefaultMaxWait,
                         !.simulation_duration = 130]
      : n \in {1, 2}, i \in {0, 1, 2}, r \in {0, 60}, d \in {30, 75} }

\* a run that reaches its horizon while a swap is in progress, and a run
\* at rate zero whose first swap ends on the timestamp of a timeline frame
\* and whose horizon is a multiple of both sampling intervals
CutShortConfigs ==
    { [BaseConfig EXCEPT !.initial_charged = 0, !.simulation_duration = 4],
      [BaseConfig EXCEPT !.chargers = 2, !.base_rate = 0, !.swap_duration = 15,
                         !.charge_duration = 30,
                         !.max_wait_time = DefaultMaxWait,
                         !.simulation_duration = 120] }

Configs == BusyConfigs \cup QuietConfigs \cup CutShortConfigs

DrawValues == {1, 2}

DrawStreams == [1 .. MaxArrivals -> DrawValues]

----------------------------------------------------------------------------
\* Specification of one run

Init ==
    \E c \in Configs, d \in DrawStreams :
        /\ cfg = c
        /\ draws = d
        /\ draw_idx = 0
        /\ now = Fresh(c).now
        /\ queue = Fresh(c).queue
        /\ next_eid = Fresh(c).next_eid
        /\ status = "running"
        /\ level = Fresh(c).level
        /\ get_queue = <<>>
        /\ put_queue = 0
        /\ depleted_count = Fresh(c).depleted_count
        /\ charging_count = 0
        /\ total_arrivals = 0
        /\ successful_swaps = 0
        /\ rejected_swaps = 0
        /\ total_wait_time = 0
        /\ swap_events = <<>>
        /\ charge_events = <<>>
        /\ inventory_events = Fresh(c).inventory_events
        /\ customer_counter = 0
        /\ cust = <<>>
        /\ hourly_snapshots = <<>>
        /\ frames = <<>>
        /\ next_snapshot_time = 0
        /\ run_no = 1
        /\ prev = <<>>
        /\ ApplyIdle
        /\ CallIdle

Next ==
    \/ ChargeCycleStart
    \/ ChargeCycleEnd
    \/ ChargeCyclePutDone
    \/ GenerateArrivalsStart
    \/ GenerateArrival
    \/ ProcessSwapArrive
    \/ RequestProcessed
    \/ PatienceTimeout
    \/ ProcessSwapStart
    \/ ProcessSwapReject
    \/ ProcessSwapEnd
    \/ CollectHourlySnapshot
    \/ RecordTimeline
    \/ StopSimulation

Spec == Init /\ [][Next]_vars

----------------------------------------------------------------------------
\* Two runs in sequence from the same seed (run_comparison runs one engine
\* after the other): the second run gets the same configuration with the
\* same or a longer patience, and the same random stream.

PatienceSteps == {0, 1, 2}

\* the second engine drawing on from the first engine's random stream
RerunSharedStream ==
    /\ status = "finished"
    /\ run_no = 1
    /\ \E k \in PatienceSteps :
          cfg' = [cfg EXCEPT !.max_wait_time = cfg.max_wait_time + k]
    /\ prev' = CollectResults
    /\ run_no' = 2
    /\ draws' = draws
    /\ draw_idx' = draw_idx
    /\ now' = Fresh(cfg').now
    /\ queue' = Fresh(cfg').queue
    /\ next_eid' = Fresh(cfg').next_eid
    /\ status' = "running"
    /\ level' = Fresh(cfg').level
    /\ get_queue' = <<>>
    /\ put_queue' = 0
    /\ depleted_count' = Fresh(cfg').depleted_count
    /\ charging_count' = 0
    /\ total_arrivals' = 0
    /\ successful_swaps' = 0
    /\ rejected_swaps' = 0
    /\ total_wait_time' = 0
    /\ swap_events' = <<>>
    /\ charge_events' = <<>>
    /\ inventory_events' = Fresh(cfg').inventory_events
    /\ customer_counter' = 0
    /\ cust' = <<>>
    /\ hourly_snapshots' = <<>>
    /\ frames' = <<>>
    /\ next_snapshot_time' = 0
    /\ UNCHANGED <<applyVars, callVars>>

\* the second engine of a comparison: its own environment, station and
\* random stream, built from the (possibly modified) configuration
Rerun ==
    /\ status = "finished"
    /\ run_no = 1
    /\ \E k \in PatienceSteps :
          cfg' = [cfg EXCEPT !.max_wait_time = cfg.max_wait_time + k]
    /\ prev' = CollectResults
    /\ run_no' = 2
    /\ draws' = draws
    /\ draw_idx' = 0
    /\ now' = Fresh(cfg').now
    /\ queue' = Fresh(cfg').queue
    /\ next_eid' = Fresh(cfg').next_eid
    /\ status' = "running"
    /\ level' = Fresh(cfg').level
    /\ get_queue' = <<>>
    /\ put_queue' = 0
    /\ depleted_count' = Fresh(cfg').depleted_count
    /\ charging_count' = 0
    /\ total_arrivals' = 0
    /\ successful_swaps' = 0
    /\ rejected_swaps' = 0
    /\ total_wait_time' = 0
    /\ swap_events' = <<>>
    /\ charge_events' = <<>>
    /\ inventory_events' = Fresh(cfg').inventory_events
    /\ customer_counter' = 0
    /\ cust' = <<>>
    /\ hourly_snapshots' = <<>>
    /\ frames' = <<>>
    /\ next_snapshot_time' = 0
    /\ UNCHANGED <<applyVars, callVars>>

NextRerun == Next \/ Rerun

SpecRerun == Init /\ [][NextRerun]_vars

----------------------------------------------------------------------------
\* A scenario applied to a baseline (ScenarioApplicator.apply_scenario)

BaselineMultipliers == {1, 2}

\* stations a delta may add: one with a new id, one repeating a baseline id
AddedStationLists ==
    { <<>>,
      << StationConfig("S3", "low", 1, 1) >>,
      << StationConfig("S1", "high", 3, 3), StationConfig("S3", "low", 1, 1) >> }

\* the last set removes every station of the baseline
RemovalSets == { {}, {"S1"}, {"S2", "S3"}, {"S1", "S2"} }

Entry(k, v) == [key |-> k, value |-> v]

\* per-station overrides; "bays" is not an attribute of a station, "S9" is
\* the id of no station, and 5 charged units exceed the capacity of S2
ModificationMaps ==
    { <<>>,
      << Entry("S1", << Entry("chargers", 4) >>) >>,
      << Entry("S1", << Entry("chargers", 4), Entry("bays", 1) >>) >>,
      << Entry("S2", << Entry("initial_charged", 0) >>),
         Entry("S3", << Entry("bays", 1) >>) >>,
      << Entry("S9", << Entry("bays", 1) >>) >>,
      << Entry("S2", << Entry("initial_charged", 5) >>) >> }

DemandMultipliers == {None, 0, 3}

\* "swap_time" is not an operational parameter
OperationsOverrides ==
    { <<>>,
      << Entry("swap_duration", 1) >>,
      << Entry("charge_duration", 5), Entry("swap_time", 1) >> }

WeatherDemands ==
    { <<>>, << [multiplier |-> 2, start_hour |-> 6, end_hour |-> None] >> }

EventDemands ==
    { <<>>,
      << [latitude |-> 1, longitude |-> 1, radius_km |-> None,
          multiplier |-> 3, start_hour |-> None, end_hour |-> 12] >> }

\* the objects of the baseline: the configuration at address 1, its station
\* list, demand, modifier lists, operations and stations
BaselineObjects(m) ==
    << [kind |-> "config", stations |-> 2, demand |-> 3, operations |-> 6,
        simulation_duration |-> 1440, random_seed |-> 42],
       ListObject(<<7, 8>>),
       [kind |-> "demand", scenario_multiplier |-> m,
        weather_modifiers |-> 4, event_modifiers |-> 5],
       ListObject(<<>>),
       ListObject(<<>>),
       OperationalConfig,
       StationConfig("S1", "high", 2, 2),
       StationConfig("S2", "medium", 1, 2) >>

\* the params dict of the delta's policies follows the baseline's objects
ParamsAddress == Len(BaselineObjects(1)) + 1

ReplenishmentPolicies ==
    { <<>>,
      << [policy |-> "jit", params |-> ParamsAddress, station_id |-> ""] >>,
      << [policy |-> "", params |-> None, station_id |-> "S1"] >> }

\* the objects before the call: the baseline, the params dict of the delta
\* and the delta's added stations
BaselineHeap(m, added) ==
    BaselineObjects(m) \o << [kind |-> "dict", min_stock |-> 1] >> \o added

\* no simulation is running while a scenario is applied
SimIdle ==
    /\ cfg = BaseConfig
    /\ draws = <<>>
    /\ draw_idx = 0
    /\ now = 0
    /\ queue = {}
    /\ next_eid = 0
    /\ status = "idle"
    /\ level = 0
    /\ get_queue = <<>>
    /\ put_queue = 0
    /\ depleted_count = 0
    /\ charging_count = 0
    /\ total_arrivals = 0
    /\ successful_swaps = 0
    /\ rejected_swaps = 0
    /\ total_wait_time = 0
    /\ swap_events = <<>>
    /\ charge_events = <<>>
    /\ inventory_events = <<>>
    /\ customer_counter = 0
    /\ cust = <<>>
    /\ hourly_snapshots = <<>>
    /\ frames = <<>>
    /\ next_snapshot_time = 0
    /\ run_no = 1
    /\ prev = <<>>

InitApply ==
    /\ SimIdle
    /\ CallIdle
    /\ \E m \in BaselineMultipliers, added \in AddedStationLists,
          removed \in RemovalSets, mods \in ModificationMaps,
          dm \in DemandMultipliers, ops \in OperationsOverrides,
          wd \in WeatherDemands, ed \in EventDemands,
          rp \in ReplenishmentPolicies :
          /\ heap = BaselineHeap(m, added)
          /\ baseline = 1
          /\ before = ConfigValue(heap, 1)
          /\ scenario =
               [ add_stations |-> Addresses(ParamsAddress + 1, Len(added)),
                 remove_station_ids |-> removed,
                 modify_stations |-> mods,
                 demand_multiplier |-> dm,
                 operations_override |-> ops,
                 weather_demand |-> wd,
                 event_demand |-> ed,
                 replenishment_policies |-> rp ]
          /\ modified_config = None
          /\ result = None
          /\ error = NoError
          /\ apply_pc = "start"

NextApply ==
    \/ ApplyDeepCopy
    \/ ApplyAddStations
    \/ ApplyRemoveStations
    \/ ApplyModifyStations
    \/ ApplyDemandMultiplier
    \/ ApplyOperations
    \/ ApplyWeather
    \/ ApplyEvent
    \/ ApplyReplenishment
    \/ ApplyReturn

SpecApply == InitApply /\ [][NextApply]_vars

----------------------------------------------------------------------------
\* Derived quantities used by the properties

\* every event scheduled for the current timestamp has been processed
Settled == status = "finished" \/ \A e \in queue : e.time > now

\* customers holding a unit inside swap_duration
InSwap == Cardinality({c \in DOMAIN cust : cust[c].pos = "swapping"})

\* units that left the pool through a fulfilled request and have not come
\* back at a swap_end
Outstanding ==
    Cardinality({c \in DOMAIN cust :
                    RequestTriggered(cust, c) /\ cust[c].pos # "served"})

CountEvents(type, c) ==
    Cardinality({i \in DOMAIN swap_events :
                    /\ swap_events[i].event_type = type
                    /\ swap_events[i].customer_id = c})

CountType(type) ==
    Cardinality({i \in DOMAIN swap_events : swap_events[i].event_type = type})

----------------------------------------------------------------------------
\* Properties

\* C1 (as claimed): every recorded inventory event satisfies
\* charged_count + depleted_count == charger_count.
C1_LogConservationExact ==
    \A i \in DOMAIN inventory_events :
        inventory_events[i].charged_count + inventory_events[i].depleted_count
            = cfg.chargers

\* C1 (amended): every recorded inventory event satisfies
\* charged_count + depleted_count == charger_count - (units taken from the
\* pool by a fulfilled request and not yet returned at a swap_end); the event
\* recorded at construction has the full sum.
C1_LogConservation ==
    /\ \A i \in DOMAIN inventory_events :
           inventory_events[i].time = 0 /\ i = 1 =>
             inventory_events[i].charged_count + inventory_events[i].depleted_count
                = cfg.chargers
    /\ [][ Len(inventory_events') > Len(inventory_events) =>
             /\ Len(inventory_events') = Len(inventory_events) + 1
             /\ Last(inventory_events').charged_count
                  + Last(inventory_events').depleted_count + Outstanding'
                    = cfg.chargers
             /\ Last(inventory_events').charged_count = level'
             /\ Last(inventory_events').depleted_count = depleted_count' ]_vars

\* C1 witness: an inventory event was recorded while a unit was outstanding
C1_Witness ==
    \E i \in DOMAIN inventory_events :
        /\ i > 1
        /\ inventory_events[i].charged_count + inventory_events[i].depleted_count
              < cfg.chargers
        /\ successful_swaps > 0

\* C2: no unit is consumed by a customer who ends on the timeout path: at
\* every instant available + depleted + (customers inside swap_duration)
\* == charger_count, and a rejected customer's request was never fulfilled.
C2_NoUnitLostToTimeout ==
    Settled =>
        /\ level + depleted_count + InSwap = cfg.chargers
        /\ \A c \in DOMAIN cust :
              cust[c].pos = "rejected" => ~RequestTriggered(cust, c)

\* C3: every arrival ends in exactly one outcome: one arrival event per
\* customer, followed by a swap_start or a rejected event, never both; the
\* counters count exactly the swap_end and rejected events.
C3_ExactlyOneOutcome ==
    /\ \A c \in DOMAIN cust :
          /\ CountEvents("arrival", c) = (IF cust[c].pos = "spawned" THEN 0 ELSE 1)
          /\ CountEvents("swap_start", c) + CountEvents("rejected", c) <= 1
          /\ CountEvents("swap_end", c) <= CountEvents("swap_start", c)
          /\ CountEvents("swap_start", c) = 1 <=> cust[c].pos \in {"swapping", "served"}
          /\ CountEvents("rejected", c) = 1 <=> cust[c].pos = "rejected"
          /\ CountEvents("swap_end", c) = 1 <=> cust[c].pos = "served"
          /\ \A i, j \in DOMAIN swap_events :
                /\ swap_events[i].customer_id = c
                /\ swap_events[j].customer_id = c
                /\ swap_events[i].event_type = "arrival"
                /\ swap_events[j].event_type # "arrival"
                => i < j
          /\ (status = "finished"
                /\ cust[c].arrival_time + cfg.max_wait_time < cfg.simulation_duration)
             => CountEvents("swap_start", c) + CountEvents("rejected", c) = 1
    /\ successful_swaps = CountType("swap_end")
    /\ rejected_swaps = CountType("rejected")
    /\ total_arrivals = CountType("arrival")
    /\ successful_swaps + rejected_swaps <= total_arrivals

\* C3 witness: one customer was served and another rejected in the same run
C3_Witness ==
    /\ status = "finished"
    /\ successful_swaps >= 1
    /\ rejected_swaps >= 1


\* C4: apply_scenario leaves the baseline deeply equal to its value before
\* the call (stations and their attributes, multiplier, modifier lists,
\* operations), at every step and for every delta, also when it fails; and
\* no station object of the delta's add_stations is a station of the
\* working copy or of the result.
C4_BaselineUntouched ==
    apply_pc # "idle" =>
        /\ ConfigValue(heap, baseline) = before
        /\ modified_config # None =>
              Range(StationList(heap, modified_config))
                 \cap Range(scenario.add_stations) = {}
        /\ result # None =>
              Range(StationList(heap, result))
                 \cap Range(scenario.add_stations) = {}

\* C4 witness: a delta that adds, removes and modifies stations, sets the
\* multiplier, overrides operations and appends modifiers and policies has
\* been applied, and the result differs from the baseline
C4_Witness ==
    /\ apply_pc = "returned"
    /\ scenario.add_stations # <<>>
    /\ scenario.remove_station_ids # {}
    /\ scenario.modify_stations # <<>>
    /\ scenario.demand_multiplier # None
    /\ scenario.operations_override # <<>>
    /\ scenario.weather_demand # <<>>
    /\ scenario.event_demand # <<>>
    /\ scenario.replenishment_policies # <<>>
    /\ ConfigValue(heap, result).stations # before.stations
    /\ ConfigValue(heap, result).operations # before.operations
    /\ ConfigValue(heap, result).weather_modifiers # before.weather_modifiers

\* C5: two runs with identical configuration and seed produce identical
\* logs, snapshots, frames and statistics; events of one timestamp are
\* ordered by (priority, eid), so the next event is always unique.
C5_Reproducible ==
    /\ \A e, f \in queue :
          (e.time = f.time /\ e.priority = f.priority /\ e.eid = f.eid) => e = f
    /\ \A e \in queue : e.eid < next_eid
    /\ \A e, f \in queue : (IsNext(e) /\ IsNext(f)) => e = f
    /\ (run_no = 2 /\ status = "finished" /\ cfg = prev.cfg)
          => CollectResults = prev

\* C5 witness: an identical second run has finished after serving and
\* rejecting customers
C5_Witness ==
    /\ run_no = 2 /\ status = "finished" /\ cfg = prev.cfg
    /\ successful_swaps >= 1 /\ rejected_swaps >= 1

\* C6: with a longer patience and everything else equal, at the horizon
\* the rejected count is not larger and the successful count not smaller.
C6_PatienceMonotone ==
    (run_no = 2 /\ status = "finished")
        => /\ rejected_swaps <= prev.stats.rejected_swaps
           /\ successful_swaps >= prev.stats.successful_swaps

\* the wait the generator started at the time the previous customer arrived
PreviousArrival(c) == IF c = 1 THEN 0 ELSE cust[c - 1].arrival_time

\* C7: a wait drawn while the rate is zero is the fixed 60-minute gap and
\* consumes no draw, so a station whose rate is zero throughout receives at
\* most one arrival per simulated hour.
C7_ZeroRateGap ==
    /\ \A c \in DOMAIN cust :
          CalculateRate(cfg, PreviousArrival(c)) = 0
             => cust[c].arrival_time = PreviousArrival(c) + 60
    /\ cfg.base_rate = 0
          => /\ draw_idx = 0
             /\ customer_counter <= now \div 60
             /\ \A c \in DOMAIN cust : cust[c].arrival_time = 60 * c

\* C7 witness: a run with rate zero throughout reached the horizon with its
\* two hourly arrivals
C7_Witness ==
    /\ cfg.base_rate = 0
    /\ status = "finished"
    /\ customer_counter = 2

\* C8: when apply_scenario fails on an unknown station attribute or an
\* unknown operational parameter, the caller receives no configuration and
\* the baseline is as before the call, although the working copy already
\* carries the earlier steps.
C8_FailedApplyAborts ==
    apply_pc = "raised" =>
        /\ error.kind = "ValueError"
        /\ result = None
        /\ ConfigValue(heap, baseline) = before

\* C8 witness: the operations override failed after stations were added and
\* the multiplier was written to the working copy
C8_Witness ==
    /\ apply_pc = "raised"
    /\ error.station = ""
    /\ result = None
    /\ scenario.demand_multiplier = 3
    /\ ConfigValue(heap, modified_config).scenario_multiplier = 3
    /\ Len(StationList(heap, modified_config)) > Len(before.stations)

\* names in the delta that no station attribute, respectively no
\* operational parameter, carries
UnknownStationNames(sc) ==
    { ch.key : ch \in UNION { Range(e.value) : e \in Range(sc.modify_stations) } }
        \ StationAttrs

UnknownOperationalNames(sc) ==
    Keys(sc.operations_override) \ OperationalParams

\* C9: a station override naming an attribute the station type does not
\* have, or an operations override naming a parameter the operations type
\* does not have, makes apply fail with a ValueError naming it; apply never
\* returns a configuration for such a delta.
C9_UnknownNameFails ==
    /\ apply_pc = "returned" =>
          /\ UnknownStationNames(scenario) = {}
          /\ UnknownOperationalNames(scenario) = {}
    /\ apply_pc = "raised" =>
          /\ error.kind = "ValueError"
          /\ error.name \in UnknownStationNames(scenario)
                               \cup UnknownOperationalNames(scenario)

StationIds(stations) == [i \in DOMAIN stations |-> stations[i].station_id]

\* baseline stations, then the delta's added stations, without the removed
ExpectedStations ==
    SelectSeq(before.stations \o Deref(heap, scenario.add_stations),
              LAMBDA s : s.station_id \notin scenario.remove_station_ids)

\* C10: after the addition and removal steps the station list is the
\* baseline's stations followed by the delta's added stations, in order,
\* without every station whose id is in the removal set; the returned list
\* has the same stations in the same order.
C10_StationList ==
    /\ apply_pc = "modify" =>
          Deref(heap, StationList(heap, modified_config)) = ExpectedStations
    /\ apply_pc = "returned" =>
          StationIds(Deref(heap, StationList(heap, result)))
             = StationIds(ExpectedStations)

\* C10 witness: a delta added two stations and removed one of them and one
\* baseline station; the survivors were returned
C10_Witness ==
    /\ apply_pc = "returned"
    /\ Len(scenario.add_stations) = 2
    /\ scenario.remove_station_ids = {"S2", "S3"}
    /\ StationIds(Deref(heap, StationList(heap, result))) = <<"S1", "S1">>

\* C11: a returned configuration carries the delta's demand multiplier as
\* its scenario multiplier whenever the delta has one (0 included), whatever
\* the baseline's multiplier was, and the baseline's multiplier otherwise.
C11_MultiplierOverwrite ==
    apply_pc = "returned" =>
        ConfigValue(heap, result).scenario_multiplier =
            IF scenario.demand_multiplier # None
            THEN scenario.demand_multiplier
            ELSE before.scenario_multiplier

\* C11 witness: a multiplier of 0 was applied over a baseline multiplier of 2
C11_Witness ==
    /\ apply_pc = "returned"
    /\ scenario.demand_multiplier = 0
    /\ before.scenario_multiplier = 2
    /\ ConfigValue(heap, result).scenario_multiplier = 0

\* C12: at every instant the pool level is between 0 and the charger count,
\* depleted_count is not negative, level plus depleted_count does not exceed
\* the charger count, and no put of a finished charge cycle is left waiting.
C12_PoolBounds ==
    /\ 0 <= level /\ level <= cfg.chargers
    /\ depleted_count >= 0
    /\ level + depleted_count <= cfg.chargers
    /\ put_queue = 0

\* C12 witness: after a completed swap a charge cycle has returned its unit
\* and the pool is full again
C12_Witness ==
    /\ status = "running"
    /\ successful_swaps >= 1
    /\ level = cfg.chargers
    /\ depleted_count = 0
    /\ \E i \in DOMAIN charge_events :
          /\ charge_events[i].event_type = "charge_end"
          /\ charge_events[i].time > 0

\* C13: no customer is still waiting after arrival + max_wait_time; a
\* swap_start records wait_time = its time - the arrival time, between 0 and
\* max_wait_time; a rejection is recorded at exactly arrival + max_wait_time
\* with wait_time = max_wait_time and never together with a swap_start; and
\* once that instant has passed, a customer whose request was never
\* fulfilled is rejected and counted in rejected_swaps.
C13_ResolvedWithinPatience ==
    /\ \A c \in DOMAIN cust :
          /\ cust[c].pos = "racing" =>
                now <= cust[c].arrival_time + cfg.max_wait_time
          /\ (/\ cust[c].pos # "spawned"
              /\ now > cust[c].arrival_time + cfg.max_wait_time
              /\ ~RequestTriggered(cust, c))
                => (cust[c].pos = "rejected" /\ CountEvents("rejected", c) = 1)
          /\ cust[c].pos = "rejected" => CountEvents("swap_start", c) = 0
    /\ \A i \in DOMAIN swap_events :
          LET ev == swap_events[i]
              arrival == cust[ev.customer_id].arrival_time
          IN  /\ ev.event_type = "swap_start" =>
                    /\ ev.wait_time = ev.time - arrival
                    /\ 0 <= ev.wait_time
                    /\ ev.wait_time <= cfg.max_wait_time
              /\ ev.event_type = "rejected" =>
                    /\ ev.time = arrival + cfg.max_wait_time
                    /\ ev.wait_time = cfg.max_wait_time
    /\ rejected_swaps = CountType("rejected")

\* C13 witness: one charger whose only unit is charging; the first customer
\* is rejected after max_wait_time with nobody served, while the unit is
\* still charging
C13_Witness ==
    /\ cfg.chargers = 1 /\ cfg.initial_charged = 0 /\ cfg.max_wait_time = 1
    /\ Len(cust) >= 1
    /\ cust[1].pos = "rejected"
    /\ cust[1].arrival_time + cfg.max_wait_time < cfg.charge_duration
    /\ rejected_swaps = 1 /\ successful_swaps = 0

----------------------------------------------------------------------------
\* The arrival rate of one generator (DemandGenerator._calculate_rate),
\* called at a given simulation time

VariedProfile == [h \in Hours |-> 1 + (h % 3)]

Weather(m, s, e) ==
    [scope |-> "global", multiplier |-> m, start_hour |-> s, end_hour |-> e]

GeoEvent(lat, lon, r, m, s, e) ==
    [scope |-> "geo", latitude |-> lat, longitude |-> lon, radius_km |-> r,
     multiplier |-> m, start_hour |-> s, end_hour |-> e]

WeatherLists ==
    { <<>>,
      << Weather(2, 0, 24) >>,
      << Weather(3, 9, 17) >>,
      << Weather(2, 0, 24), Weather(3, 22, 6) >> }

\* the station is at (0, 0): events 3 km away with radius 5 (inside), 3 (on
\* the edge) and 2 (outside), one without a location, one over midnight
EventLists ==
    { <<>>,
      << GeoEvent(3, 0, 5, 5, 0, 24) >>,
      << GeoEvent(3, 0, 3, 5, 0, 24) >>,
      << GeoEvent(3, 0, 2, 5, 0, 24) >>,
      << GeoEvent(None, None, 5, 5, 0, 24) >>,
      << GeoEvent(0, 1, 5, 7, 22, 6), GeoEvent(2, 2, 3, 5, 0, 24) >> }

RateTimes == {0, 59, 60, 540, 1320, 1439, 1440, 1500}

RateConfigs ==
    { [BaseConfig EXCEPT !.base_rate = b, !.time_multipliers = p,
                         !.scenario_multiplier = sm,
                         !.weather_modifiers = w, !.event_modifiers = ev]
      : b \in {0, 10}, p \in {FlatProfile, VariedProfile}, sm \in {1, 3},
        w \in WeatherLists, ev \in EventLists }

InitRate ==
    /\ SimIdle
    /\ ApplyIdle
    /\ \E c \in RateConfigs, t \in RateTimes :
          call = [fn |-> "_calculate_rate", c |-> c, t |-> t]
    /\ ret = <<>>

\* effective_rate = self._calculate_rate() at env.now = call.t
CallCalculateRate ==
    /\ call.fn = "_calculate_rate"
    /\ ret = <<>>
    /\ ret' = << CalculateRate(call.c, call.t) >>
    /\ UNCHANGED <<call, simVars, applyVars>>

SpecRate == InitRate /\ [][CallCalculateRate]_vars

\* a modifier contributes at hour h to the station of configuration c
Contributes(m, h, c) ==
    /\ IF m.start_hour <= m.end_hour
       THEN m.start_hour <= h /\ h < m.end_hour
       ELSE h >= m.start_hour \/ h < m.end_hour
    /\ \/ m.scope = "global"
       \/ /\ m.scope = "geo"
          /\ m.latitude # None /\ m.longitude # None
          /\ Abs(c.lat - m.latitude) + Abs(c.lon - m.longitude) <= m.radius_km

RECURSIVE ProductOfContributing(_, _, _)
ProductOfContributing(mods, h, c) ==
    IF mods = <<>> THEN 1
    ELSE (IF Contributes(Head(mods), h, c) THEN Head(mods).multiplier ELSE 1)
            * ProductOfContributing(Tail(mods), h, c)

\* C14: the rate returned is base_rate x time_multiplier(floor(t/60) mod 24)
\* x scenario_multiplier x the product of the multipliers of the modifiers
\* contributing at that hour; with the single weather modifier of
\* multiplier 2 over [0, 24) it is twice the rate without modifiers.
C14_RateFormula ==
    (call.fn = "_calculate_rate" /\ ret # <<>>) =>
        LET c == call.c
            h == (call.t \div 60) % 24
        IN  /\ ret[1] = c.base_rate * c.time_multipliers[h]
                          * c.scenario_multiplier
                          * ProductOfContributing(
                                c.weather_modifiers \o c.event_modifiers, h, c)
            /\ (c.weather_modifiers = << Weather(2, 0, 24) >>
                   /\ c.event_modifiers = <<>>)
                 => ret[1] = 2 * c.base_rate * c.time_multipliers[h]
                               * c.scenario_multiplier

\* C14 witness: a weather and an event modifier are both active and the
\* rate is the base rate times both multipliers
C14_Witness ==
    /\ call.fn = "_calculate_rate" /\ ret # <<>>
    /\ call.c.weather_modifiers = << Weather(2, 0, 24) >>
    /\ call.c.event_modifiers = << GeoEvent(3, 0, 5, 5, 0, 24) >>
    /\ call.c.base_rate = 10 /\ call.c.scenario_multiplier = 3
    /\ call.c.time_multipliers = VariedProfile /\ call.t = 1500
    /\ ret[1] = 10 * 2 * 3 * 2 * 5

WithoutEvent(c, i) ==
    [c EXCEPT !.event_modifiers =
         SubSeq(c.event_modifiers, 1, i - 1)
           \o SubSeq(c.event_modifiers, i + 1, Len(c.event_modifiers))]

\* C15: an event modifier multiplies the station's rate by its multiplier
\* when the hour is in its window and the station is within radius_km of
\* the event; otherwise the rate is the rate without that modifier.
C15_EventRadiusGate ==
    (call.fn = "_calculate_rate" /\ ret # <<>>) =>
        \A i \in DOMAIN call.c.event_modifiers :
            LET c == call.c
                m == c.event_modifiers[i]
                h == (call.t \div 60) % 24
                rest == CalculateRate(WithoutEvent(c, i), call.t)
                near == /\ m.latitude # None /\ m.longitude # None
                        /\ Haversine(c.lat, c.lon, m.latitude, m.longitude)
                              <= m.radius_km
            IN  IF near /\ Contributes(m, h, c)
                THEN ret[1] = m.multiplier * rest
                ELSE ret[1] = rest

\* C15 witness: a station 3 km from an event of radius 2, in the event's
\* window, has a non-zero rate without the event's multiplier
C15_Witness ==
    /\ call.fn = "_calculate_rate" /\ ret # <<>>
    /\ call.c.event_modifiers = << GeoEvent(3, 0, 2, 5, 0, 24) >>
    /\ call.c.weather_modifiers = <<>>
    /\ call.c.base_rate = 10 /\ call.c.scenario_multiplier = 1
    /\ call.c.time_multipliers = FlatProfile
    /\ ret[1] = 10

----------------------------------------------------------------------------
\* DemandGenerator._is_hour_in_window called on every hour and window

WindowHours == 0 .. 24

InitWindow ==
    /\ SimIdle
    /\ ApplyIdle
    /\ \E h \in Hours, s \in WindowHours, e \in WindowHours :
          call = [fn |-> "_is_hour_in_window", current_hour |-> h,
                  start_hour |-> s, end_hour |-> e]
    /\ ret = <<>>

CallIsHourInWindow ==
    /\ call.fn = "_is_hour_in_window"
    /\ ret = <<>>
    /\ ret' = << IsHourInWindow(call.current_hour, call.start_hour,
                                call.end_hour) >>
    /\ UNCHANGED <<call, simVars, applyVars>>

SpecWindow == InitWindow /\ [][CallIsHourInWindow]_vars

\* the hours start, start + 1, ... up to but excluding end, around the clock
HoursFromTo(start_hour, end_hour) ==
    IF start_hour <= end_hour
    THEN { h \in Hours : start_hour <= h /\ h < end_hour }
    ELSE { h \in Hours : h >= start_hour } \cup { h \in Hours : h < end_hour }

\* C16: for every hour 0..23 and every start and end in 0..24 the modifier
\* is active exactly on the hours from start up to, not including, end,
\* wrapping over midnight when start > end; a window with start = end is
\* never active, and 22 -> 6 holds 22, 23, 0, ..., 5 and nothing else.
C16_HourWindow ==
    (call.fn = "_is_hour_in_window" /\ ret # <<>>) =>
        /\ ret[1] = (call.current_hour
                        \in HoursFromTo(call.start_hour, call.end_hour))
        /\ call.start_hour = call.end_hour => ret[1] = FALSE
        /\ (call.start_hour = 22 /\ call.end_hour = 6) =>
              ret[1] = (call.current_hour \in {22, 23, 0, 1, 2, 3, 4, 5})
        /\ (call.start_hour = 0 /\ call.end_hour = 24) => ret[1] = TRUE

\* C16 witness: hour 6 is found outside the window 22 -> 6 and hour 23
\* inside it
C16_Witness ==
    /\ call.fn = "_is_hour_in_window" /\ ret # <<>>
    /\ call.start_hour = 22 /\ call.end_hour = 6
    /\ \/ call.current_hour = 6 /\ ret[1] = FALSE
       \/ call.current_hour = 23 /\ ret[1] = TRUE

----------------------------------------------------------------------------
\* KPICalculator._calculate_charger_utilization. The result is a fraction,
\* written [num, den] with den > 0.

\* charge cycles in the logs handed to the calculator
MaxCharges == 3

Fraction(n, d) == [num |-> n, den |-> d]

\* the utilization without the cap at 1.0
CalculateChargerUtilizationUncapped(log, simulation_duration, charge_duration, num_chargers) ==
    IF log = <<>> \/ num_chargers <= 0 THEN Fraction(0, 1)
    ELSE LET completed_charges ==
                 Len(SelectSeq(log, LAMBDA e : e.event_type = "charge_end"))
             total_charging_time == completed_charges * charge_duration
             total_available_time == simulation_duration * num_chargers
         IN  IF total_available_time > 0
             THEN Fraction(total_charging_time, total_available_time)
             ELSE Fraction(0, 1)

CalculateChargerUtilization(log, simulation_duration, charge_duration, num_chargers) ==
    IF log = <<>> \/ num_chargers <= 0 THEN Fraction(0, 1)
    ELSE LET completed_charges ==
                 Len(SelectSeq(log, LAMBDA e : e.event_type = "charge_end"))
             total_charging_time == completed_charges * charge_duration
             total_available_time == simulation_duration * num_chargers
             utilization ==
                 IF total_available_time > 0
                 THEN Fraction(total_charging_time, total_available_time)
                 ELSE Fraction(0, 1)
         IN  IF utilization.num >= utilization.den
             THEN Fraction(1, 1) ELSE utilization

\* a log of the given numbers of started and completed charge cycles
ChargeLog(starts, ends) ==
    [i \in 1 .. starts |-> ChargeEvent(0, "charge_start")]
       \o [i \in 1 .. ends |-> ChargeEvent(i, "charge_end")]

ChargeLogs ==
    { ChargeLog(p[1], p[2]) :
        p \in { q \in (0 .. MaxCharges) \X (0 .. MaxCharges) : q[2] <= q[1] } }

InitUtilization ==
    /\ SimIdle
    /\ ApplyIdle
    /\ \E log \in ChargeLogs, sd \in {0, 1, 12, 1440},
          cd \in {0, 1, 3, 75, 210}, n \in {0 - 1, 0, 1, 2, 10} :
          call = [fn |-> "_calculate_charger_utilization",
                  charge_events |-> log, simulation_duration |-> sd,
                  charge_duration |-> cd, num_chargers |-> n]
    /\ ret = <<>>

CallCalculateChargerUtilization ==
    /\ call.fn = "_calculate_charger_utilization"
    /\ ret = <<>>
    /\ ret' = << CalculateChargerUtilization(call.charge_events,
                     call.simulation_duration, call.charge_duration,
                     call.num_chargers) >>
    /\ UNCHANGED <<call, simVars, applyVars>>

SpecUtilization ==
    InitUtilization /\ [][CallCalculateChargerUtilization]_vars

ChargeEnds(log) ==
    Cardinality({ i \in DOMAIN log : log[i].event_type = "charge_end" })

\* C17: the utilization is a value in [0, 1]; it is 0 when the log is empty
\* or the charger count is not positive, and otherwise, for a positive
\* horizon, the smaller of 1 and
\* charge_end events x charge_duration / (simulation_duration x chargers).
C17_UtilizationBounds ==
    (call.fn = "_calculate_charger_utilization" /\ ret # <<>>) =>
        LET u == ret[1]
            used == ChargeEnds(call.charge_events) * call.charge_duration
            available == call.simulation_duration * call.num_chargers
        IN  /\ u.den > 0
            /\ 0 <= u.num /\ u.num <= u.den
            /\ (call.charge_events = <<>> \/ call.num_chargers <= 0)
                  => u.num = 0
            /\ (call.charge_events # <<>> /\ call.num_chargers >= 1
                   /\ call.simulation_duration > 0) =>
                  IF used >= available THEN u.num = u.den
                  ELSE u.num * available = used * u.den

\* C17 witness: more charging time than charger time, capped at 1
C17_Witness ==
    /\ call.fn = "_calculate_charger_utilization" /\ ret # <<>>
    /\ call.num_chargers = 1 /\ call.simulation_duration = 12
    /\ call.charge_duration = 210
    /\ ChargeEnds(call.charge_events) = 2
    /\ ret[1] = Fraction(1, 1)

----------------------------------------------------------------------------
\* SimulationEngine._compute_timeline_interval on a validated configuration

\* BaselineConfig.__post_init__: duration_hours, when given, sets
\* simulation_duration
PostInit(duration_hours, simulation_duration) ==
    [ duration_hours |-> duration_hours,
      simulation_duration |->
          IF duration_hours # None THEN duration_hours * 60
          ELSE simulation_duration ]

DurationHours == {None, 1, 23, 24, 25, 167, 168, 169, 744}

SimulationDurations ==
    {1, 60, 1439, 1440, 1441, 2880, 10079, 10080, 10081, 44640}

InitInterval ==
    /\ SimIdle
    /\ ApplyIdle
    /\ \E dh \in DurationHours, sd \in SimulationDurations :
          call = [fn |-> "_compute_timeline_interval",
                  duration_hours |-> dh, simulation_duration |-> sd]
    /\ ret = <<>>

\* SimulationEngine(config).timeline_recorder.interval_min
CallComputeTimelineInterval ==
    /\ call.fn = "_compute_timeline_interval"
    /\ ret = <<>>
    /\ ret' = << ComputeTimelineInterval(
                    PostInit(call.duration_hours, call.simulation_duration)) >>
    /\ UNCHANGED <<call, simVars, applyVars>>

SpecInterval == InitInterval /\ [][CallComputeTimelineInterval]_vars

\* C18: the frame interval is 15 minutes for a horizon of at most 24 hours,
\* 60 minutes for a horizon above 24 and at most 168 hours, and 240 minutes
\* above 168 hours, the horizon being the run's simulation_duration.
C18_TimelineInterval ==
    (call.fn = "_compute_timeline_interval" /\ ret # <<>>) =>
        LET horizon ==
                PostInit(call.duration_hours,
                         call.simulation_duration).simulation_duration
        IN  /\ horizon <= 1440 => ret[1] = 15
            /\ (horizon > 1440 /\ horizon <= 10080) => ret[1] = 60
            /\ horizon > 10080 => ret[1] = 240

\* C18 witness: the boundary horizons of 24 h and 168 h got 15 and 60
C18_Witness ==
    /\ call.fn = "_compute_timeline_interval" /\ ret # <<>>
    /\ call.duration_hours = None
    /\ \/ call.simulation_duration = 1440 /\ ret[1] = 15
       \/ call.simulation_duration = 10080 /\ ret[1] = 60

----------------------------------------------------------------------------
\* A run under the scheduling of env.run: the event loop keeps taking the
\* next event of the queue for as long as there is one

FairSpec == Spec /\ WF_vars(Next)

\* the timestamps of everything a run has recorded
RecordedTimes ==
    { swap_events[i].time : i \in DOMAIN swap_events }
      \cup { charge_events[i].time : i \in DOMAIN charge_events }
      \cup { inventory_events[i].time : i \in DOMAIN inventory_events }
      \cup { hourly_snapshots[i].time_minutes : i \in DOMAIN hourly_snapshots }
      \cup { frames[i].timestamp_min : i \in DOMAIN frames }

RunWithinHorizon ==
    /\ status = "running" =>
          /\ now < cfg.simulation_duration
          /\ \E e \in queue : e.kind = "until"
    /\ status = "finished" => now = cfg.simulation_duration
    /\ \A t \in RecordedTimes : 0 <= t /\ t < cfg.simulation_duration

\* C19: every run ends, and ends exactly when the clock reaches
\* simulation_duration, whatever the station's state; until then the stop
\* event stays pending, and nothing is recorded with a timestamp outside
\* [0, simulation_duration); the results are those of the state at the stop.
C19_TerminatesAtHorizon ==
    /\ [] RunWithinHorizon
    /\ <> (status = "finished")

\* C19 witness: the run ended with a customer still waiting for a unit and
\* a charge cycle still running
C19_Witness ==
    /\ status = "finished"
    /\ now = cfg.simulation_duration
    /\ get_queue # <<>>
    /\ charging_count > 0
    /\ level = 0
    /\ CollectResults.stats.total_arrivals >= 1

----------------------------------------------------------------------------
\* Isolation of the runs of a comparison

\* the engine's state is the one a first run has after setup
StartsFresh ==
    /\ draw_idx = 0
    /\ now = 0
    /\ queue = Fresh(cfg).queue
    /\ next_eid = Fresh(cfg).next_eid
    /\ status = "running"
    /\ level = InitialLevel(cfg)
    /\ get_queue = <<>> /\ put_queue = 0
    /\ depleted_count = cfg.chargers - InitialLevel(cfg)
    /\ charging_count = 0
    /\ total_arrivals = 0 /\ successful_swaps = 0
    /\ rejected_swaps = 0 /\ total_wait_time = 0
    /\ swap_events = <<>> /\ charge_events = <<>>
    /\ Len(inventory_events) = 1
    /\ customer_counter = 0 /\ cust = <<>>
    /\ hourly_snapshots = <<>> /\ frames = <<>>
    /\ next_snapshot_time = 0

\* C20: a run never changes the configuration or the seed it was given nor
\* the results of an earlier run; a second engine starts from the state a
\* first run starts from (its own clock, station and random stream at the
\* beginning of the seed's draws); so a second run of the same
\* configuration returns what the first returned.
C20_RunsIsolated ==
    /\ [][ run_no' = run_no =>
             (cfg' = cfg /\ draws' = draws /\ prev' = prev) ]_vars
    /\ [][ run_no' # run_no => (StartsFresh' /\ draws' = draws) ]_vars
    /\ [] ((run_no = 2 /\ status = "finished" /\ cfg = prev.cfg)
              => CollectResults.stats = prev.stats)

\* C20 witness: the scenario run of a comparison ended with other counts
\* than the baseline run before it
C20_Witness ==
    /\ run_no = 2 /\ status = "finished"
    /\ cfg # prev.cfg
    /\ CollectResults.stats # prev.stats
    /\ prev.stats.total_arrivals >= 1

----------------------------------------------------------------------------
\* The initial shortfall of a station

\* C21: a station whose pool starts with a = min(initial_charged, chargers)
\* units and a < chargers starts with depleted = chargers - a; once the
\* events of time 0 are processed, exactly chargers - a charge_start events
\* are logged at time 0; no charge ends before charge_duration, and once the
\* events of t = charge_duration (before the horizon) are processed each of
\* these units has a charge_end at charge_duration; the step that logs a
\* charge_end puts the unit into the pool.
C21_InitialShortfallCharged ==
    /\ [] (LET a == InitialLevel(cfg)
               dep == cfg.chargers - a
               charges(type, t) ==
                   { i \in DOMAIN charge_events :
                        /\ charge_events[i].event_type = type
                        /\ charge_events[i].time = t }
               passed(t) == now > t \/ (now = t /\ Settled)
           IN  a < cfg.chargers =>
                /\ inventory_events[1] = InventoryEvent(0, a, dep)
                /\ passed(0) => Cardinality(charges("charge_start", 0)) = dep
                /\ \A i \in DOMAIN charge_events :
                      charge_events[i].event_type = "charge_end"
                          => charge_events[i].time >= cfg.charge_duration
                /\ (passed(cfg.charge_duration)
                      /\ cfg.charge_duration < cfg.simulation_duration) =>
                      Cardinality(charges("charge_end", cfg.charge_duration)) = dep)
    /\ [][ (/\ Len(charge_events') = Len(charge_events) + 1
            /\ Last(charge_events').event_type = "charge_end")
           => (level' = level + 1 /\ put_queue' = 0) ]_vars

\* C21 witness: a station of two chargers that started empty has had both
\* units charged and put back
C21_Witness ==
    /\ cfg.chargers = 2 /\ InitialLevel(cfg) = 0
    /\ now > cfg.charge_duration
    /\ Cardinality({ i \in DOMAIN charge_events :
                        charge_events[i] = ChargeEvent(cfg.charge_duration, "charge_end") }) = 2
    /\ successful_swaps >= 1

----------------------------------------------------------------------------
\* The request of a customer who timed out

\* C22: once a customer has taken the timeout path, its request is not in
\* the pool's queue; no later step fulfils the request of a customer who is
\* already rejected; and the queue_length of every snapshot taken from then
\* on counts only customers who are still waiting, never a rejected one.
C22_TimedOutRequestWithdrawn ==
    /\ [] (\A c \in DOMAIN cust :
              cust[c].pos = "rejected" =>
                 \A i \in DOMAIN get_queue : get_queue[i] # c)
    /\ [][ \A c \in DOMAIN cust :
              cust[c].pos = "rejected" =>
                 /\ cust'[c].pos = "rejected"
                 /\ RequestTriggered(cust', c) => RequestTriggered(cust, c)
                 /\ \A e \in queue' : e.kind = "get" /\ e.customer = c
                                         => e \in queue ]_vars
    /\ [][ Len(frames') > Len(frames) =>
              Last(frames').queue_length
                 = Cardinality({ c \in DOMAIN cust' :
                                   cust'[c].pos = "racing" /\ cust'[c].req = "queued" }) ]_vars
    /\ [][ Len(hourly_snapshots') > Len(hourly_snapshots) =>
              Last(hourly_snapshots').queue_length
                 = Cardinality({ c \in DOMAIN cust' :
                                   cust'[c].pos = "racing" /\ cust'[c].req = "queued" }) ]_vars

\* C22 witness: a customer's request was cancelled on the timeout path, and
\* after that rejection a unit was released and a snapshot was taken
C22_Witness ==
    \E i \in DOMAIN swap_events :
        /\ swap_events[i].event_type = "rejected"
        /\ cust[swap_events[i].customer_id].req = "cancelled"
        /\ \E j \in DOMAIN charge_events :
              /\ charge_events[j].event_type = "charge_end"
              /\ charge_events[j].time > swap_events[i].time
        /\ \E k \in DOMAIN frames :
              /\ frames[k].timestamp_min > swap_events[i].time
              /\ frames[k].swaps_lost >= 1

----------------------------------------------------------------------------
\* The order of a successful swap

\* C23: for each successful customer the log holds arrival, then swap_start,
\* then swap_end exactly swap_duration after swap_start; swap_start is
\* logged in the timestamp in which the request was fulfilled and changes
\* neither successful_swaps nor depleted; the step that logs swap_end adds
\* one to successful_swaps and to depleted, logs an inventory event with the
\* new counts, ends the swap process and leaves a charge cycle to be
\* started; once the events of that timestamp are processed, a charge_start
\* is logged at the swap_end's timestamp for each swap_end.
C23_SwapOrder ==
    /\ [] (\A k \in DOMAIN swap_events :
              swap_events[k].event_type = "swap_end" =>
                 \E i, j \in DOMAIN swap_events :
                    /\ i < j /\ j < k
                    /\ swap_events[i].event_type = "arrival"
                    /\ swap_events[j].event_type = "swap_start"
                    /\ swap_events[i].customer_id = swap_events[k].customer_id
                    /\ swap_events[j].customer_id = swap_events[k].customer_id
                    /\ swap_events[k].time = swap_events[j].time + cfg.swap_duration
                    /\ (now > swap_events[k].time \/ Settled) =>
                          Cardinality({ n \in DOMAIN charge_events :
                                          charge_events[n] =
                                             ChargeEvent(swap_events[k].time, "charge_start") })
                            >= Cardinality({ m \in DOMAIN swap_events :
                                               /\ swap_events[m].event_type = "swap_end"
                                               /\ swap_events[m].time = swap_events[k].time }))
    /\ [][ (/\ Len(swap_events') = Len(swap_events) + 1
            /\ Last(swap_events').event_type = "swap_start")
           => /\ successful_swaps' = successful_swaps
              /\ depleted_count' = depleted_count
              /\ now' = now
              /\ cust[Last(swap_events').customer_id].req = "processed" ]_vars
    /\ [][ successful_swaps' # successful_swaps \/ depleted_count' > depleted_count
           => /\ successful_swaps' = successful_swaps + 1
              /\ depleted_count' = depleted_count + 1
              /\ Len(swap_events') = Len(swap_events) + 1
              /\ Last(swap_events').event_type = "swap_end"
              /\ Last(swap_events').time = now'
              /\ inventory_events' =
                    Append(inventory_events,
                           InventoryEvent(now', level', depleted_count'))
              /\ cust'[Last(swap_events').customer_id].pos = "served"
              /\ charge_events' = charge_events
              /\ \E e \in queue' \ queue :
                    e.kind = "init_charge" /\ e.time = now' ]_vars

\* C23 witness: a customer who waited for a unit has finished the swap and
\* the charge of the returned unit has started at the swap_end's timestamp
C23_Witness ==
    \E k \in DOMAIN swap_events :
        /\ swap_events[k].event_type = "swap_end"
        /\ swap_events[k].wait_time > 0
        /\ Settled
        /\ now = swap_events[k].time
        /\ status = "running"
        /\ Last(charge_events) = ChargeEvent(now, "charge_start")

----------------------------------------------------------------------------
\* One charge cycle per depleted unit

\* C24: once the events of the current timestamp are processed, the number
\* of charge_start events equals (chargers - initial available) +
\* successful_swaps; there are never more charge_end than charge_start
\* events; and the k-th charge_end is logged exactly charge_duration after
\* the k-th charge_start, whatever other cycles are in progress.
C24_OneCyclePerDepletedUnit ==
    LET starts == SelectSeq(charge_events, LAMBDA ev : ev.event_type = "charge_start")
        ends == SelectSeq(charge_events, LAMBDA ev : ev.event_type = "charge_end")
    IN  /\ Settled =>
              Len(starts) = (cfg.chargers - InitialLevel(cfg)) + successful_swaps
        /\ Len(starts) <= (cfg.chargers - InitialLevel(cfg)) + successful_swaps
        /\ Len(ends) <= Len(starts)
        /\ Len(starts) - Len(ends) = charging_count
        /\ \A k \in DOMAIN ends :
              ends[k].time = starts[k].time + cfg.charge_duration
        /\ \A k \in DOMAIN starts :
              now > starts[k].time + cfg.charge_duration => k \in DOMAIN ends

\* C24 witness: two cycles of one station overlapped and both have ended,
\* one of them for a unit returned by a swap
C24_Witness ==
    LET starts == SelectSeq(charge_events, LAMBDA ev : ev.event_type = "charge_start")
        ends == SelectSeq(charge_events, LAMBDA ev : ev.event_type = "charge_end")
    IN  /\ Len(ends) >= 2
        /\ successful_swaps >= 1
        /\ starts[1].time < starts[2].time
        /\ starts[2].time < ends[1].time

----------------------------------------------------------------------------
\* Validity of an applied configuration

\* C25: every configuration returned by apply_scenario has at least one
\* station, and each of its stations has a tier in {high, medium, low}, a
\* charger count >= 0 and 0 <= initial_charged <= inventory_capacity.
C25_ResultValid ==
    apply_pc = "returned" =>
        LET stations == Deref(heap, StationList(heap, result))
        IN  /\ Len(stations) >= 1
            /\ \A i \in DOMAIN stations :
                  /\ stations[i].tier \in {"high", "medium", "low"}
                  /\ stations[i].chargers >= 0
                  /\ 0 <= stations[i].initial_charged
                  /\ stations[i].initial_charged <= stations[i].inventory_capacity

----------------------------------------------------------------------------
\* Arrivals at rate zero

\* C26: with rate zero for the whole run, once the events of t = 60 * k
\* (below the horizon) are processed, the k-th customer has arrived at
\* 60 * k: its arrival is logged with that time and counted, and it is in a
\* normal swap attempt (waiting, swapping, served or rejected); no arrival
\* has any other timestamp.
C26_ZeroRateArrivals ==
    cfg.base_rate = 0 =>
        /\ \A i \in DOMAIN swap_events :
              swap_events[i].event_type = "arrival" =>
                 /\ swap_events[i].time = 60 * swap_events[i].customer_id
                 /\ swap_events[i].time < cfg.simulation_duration
        /\ \A k \in 1 .. MaxArrivals :
              (/\ 60 * k < cfg.simulation_duration
               /\ (now > 60 * k \/ (now = 60 * k /\ Settled)))
              => /\ k \in DOMAIN cust
                 /\ cust[k].pos \in {"racing", "swapping", "served", "rejected"}
                 /\ total_arrivals >= k
                 /\ \E i \in DOMAIN swap_events :
                       swap_events[i] = SwapEvent(60 * k, "arrival", k, 0)
                 /\ (status = "finished"
                       /\ 60 * k + cfg.max_wait_time < cfg.simulation_duration)
                    => cust[k].pos \in {"served", "rejected"}

\* C26 witness: a run at rate zero ended with its arrivals of t = 60 and
\* t = 120, the first of them served
C26_Witness ==
    /\ cfg.base_rate = 0
    /\ status = "finished"
    /\ total_arrivals = 2
    /\ cust[1].pos = "served"
    /\ swap_events[Len(swap_events)].time = 120

----------------------------------------------------------------------------
\* The accumulated wait

\* C27: at every instant the station's total_wait_time equals the sum of
\* wait_time over its swap_end events, the swaps counted in
\* successful_swaps, so that total_wait_time / successful_swaps is the mean
\* wait of the counted swaps.
C27_WaitSumOfCounted ==
    LET RECURSIVE SumWait(_)
        SumWait(evs) ==
            IF evs = <<>> THEN 0
            ELSE (IF Head(evs).event_type = "swap_end" THEN Head(evs).wait_time ELSE 0)
                 + SumWait(Tail(evs))
    IN  /\ successful_swaps = CountType("swap_end")
        /\ total_wait_time = SumWait(swap_events)

----------------------------------------------------------------------------
\* Arrivals do not depend on the station

\* C28: the step that emits an arrival also sets the generator's next wait,
\* without waiting for the customer; and the k-th arrival time is the one
\* computed from the random draws and the demand parameters alone (base
\* rate, time-of-day profile, scenario multiplier), whatever the charger
\* count, initial_charged, swap_duration, charge_duration and max_wait_time.
C28_ArrivalsIndependent ==
    /\ [] (LET demand == [BaseConfig EXCEPT
                             !.base_rate = cfg.base_rate,
                             !.time_multipliers = cfg.time_multipliers,
                             !.scenario_multiplier = cfg.scenario_multiplier]
               RECURSIVE Arrival(_)
               Arrival(k) ==
                   IF k = 0 THEN [time |-> 0, idx |-> 0]
                   ELSE LET p == Arrival(k - 1)
                        IN  [time |-> p.time
                                 + InterArrivalTime(demand, p.time, draws[p.idx + 1]),
                             idx |-> IF CalculateRate(demand, p.time) > 0
                                     THEN p.idx + 1 ELSE p.idx]
           IN  /\ \A c \in DOMAIN cust : cust[c].arrival_time = Arrival(c).time
               /\ \A k \in 1 .. MaxArrivals :
                     (Arrival(k).time < now /\ Arrival(k).time < cfg.simulation_duration)
                        => k \in DOMAIN cust)
    /\ [][ (customer_counter' = customer_counter + 1
              /\ customer_counter' < MaxArrivals)
           => \E e \in queue' \ queue :
                 /\ e.kind = "arrival_timeout"
                 /\ cust'[customer_counter'].pos = "spawned" ]_vars

\* C28 witness: more customers are waiting or swapping at a station than it
\* has chargers
C28_Witness ==
    /\ Cardinality({ c \in DOMAIN cust : cust[c].pos \in {"racing", "swapping"} })
          > cfg.chargers
    /\ \E c \in DOMAIN cust : cust[c].pos = "swapping"
    /\ \E c \in DOMAIN cust : cust[c].pos = "racing"

----------------------------------------------------------------------------
\* Station overrides

----------------------------------------------------------------------------
\* Overrides for a station that is not there

\* C30: apply_scenario returns no configuration for a delta whose override
\* map has a key that is the station_id of no station left after the
\* additions and removals (an unknown id, or an id removed by the same
\* delta): the entry is not silently ignored.
C30_UnmatchedOverrideFails ==
    LET unmatched ==
            Keys(scenario.modify_stations)
               \ { ExpectedStations[i].station_id : i \in DOMAIN ExpectedStations }
    IN  unmatched # {} => apply_pc # "returned"

----------------------------------------------------------------------------
\* Construction of a station from a validated configuration

\* StationConfig.__post_init__: the default of initial_charged, then the
\* assertions
StationPostInit(tier, chargers, inventory_capacity, initial_charged) ==
    LET initial == IF initial_charged = None THEN inventory_capacity
                   ELSE initial_charged
    IN  IF /\ tier \in {"high", "medium", "low"}
           /\ chargers >= 0
           /\ inventory_capacity > 0
           /\ 0 <= initial /\ initial <= inventory_capacity
        THEN [kind |-> "station_config", tier |-> tier, chargers |-> chargers,
              inventory_capacity |-> inventory_capacity,
              initial_charged |-> initial]
        ELSE [kind |-> "AssertionError"]

\* simpy.Container(env, capacity, init): the constructor rejects a capacity
\* that is not positive and an init outside 0 .. capacity
Container(capacity, init) ==
    IF capacity <= 0 THEN ValueError("", "capacity")
    ELSE IF init < 0 \/ init > capacity THEN ValueError("", "init")
    ELSE [kind |-> "container", capacity |-> capacity, level |-> init]

\* _create_station / Station.__init__ up to the counters: an exception of
\* the pool's constructor leaves the constructor of the station
CreateStation(sc) ==
    LET charged_store == Container(sc.chargers, InitialLevel(sc))
    IN  IF charged_store.kind = "ValueError" THEN charged_store
        ELSE [kind |-> "station",
              inventory_capacity |-> sc.chargers,
              level |-> charged_store.level,
              depleted_count |-> sc.chargers - InitialLevel(sc)]

InitCreate ==
    /\ SimIdle
    /\ ApplyIdle
    /\ \E t \in {"high", "low", "premium"}, n \in (0 - 1) .. 3,
          cap \in 0 .. 3, i \in {None} \cup (0 .. 4) :
          call = [fn |-> "_create_station", tier |-> t, chargers |-> n,
                  inventory_capacity |-> cap, initial_charged |-> i]
    /\ ret = <<>>

\* the station configuration is built and validated; a valid one is given
\* to _create_station
CallCreateStation ==
    /\ call.fn = "_create_station"
    /\ ret = <<>>
    /\ LET sc == StationPostInit(call.tier, call.chargers,
                                 call.inventory_capacity, call.initial_charged)
       IN  ret' = << IF sc.kind = "AssertionError" THEN sc
                     ELSE CreateStation(sc) >>
    /\ UNCHANGED <<call, simVars, applyVars>>

SpecCreate == InitCreate /\ [][CallCreateStation]_vars

\* C31: every station configuration that passes validation, a charger
\* count of 0 included, is instantiated as a Station: the construction of
\* its pool does not fail.
C31_ValidStationConstructs ==
    (call.fn = "_create_station" /\ ret # <<>>) =>
        (StationPostInit(call.tier, call.chargers, call.inventory_capacity,
                         call.initial_charged).kind = "station_config"
            => ret[1].kind = "station")

----------------------------------------------------------------------------
\* What the samplers see

\* C32: in every hourly snapshot total_arrivals = successful_swaps +
\* rejected_swaps + queue_length + (customers who hold a unit and have not
\* ended their swap); every timeline frame satisfies the same with the
\* station's arrival count; a customer who holds a unit without a logged
\* swap_start got it in the snapshot's timestamp; successful_swaps +
\* rejected_swaps <= total_arrivals, and the three counters do not decrease
\* from one snapshot to the next.
C32_ArrivalsAccounted ==
    /\ [][ Len(hourly_snapshots') > Len(hourly_snapshots) =>
             LET s == Last(hourly_snapshots')
                 holding == { c \in DOMAIN cust' :
                                /\ RequestTriggered(cust', c)
                                /\ cust'[c].pos \in {"racing", "swapping"} }
             IN  /\ s.total_arrivals = s.successful_swaps + s.rejected_swaps
                        + s.queue_length + Cardinality(holding)
                 /\ \A c \in holding :
                       cust'[c].pos = "racing" =>
                          (cust'[c].cond = "pending" /\ cust'[c].arrival_time = now') ]_vars
    /\ [][ Len(frames') > Len(frames) =>
             LET f == Last(frames')
                 holding == { c \in DOMAIN cust' :
                                /\ RequestTriggered(cust', c)
                                /\ cust'[c].pos \in {"racing", "swapping"} }
             IN  total_arrivals' = f.swaps_completed + f.swaps_lost
                        + f.queue_length + Cardinality(holding) ]_vars
    /\ [] (\A i, j \in DOMAIN hourly_snapshots :
              i <= j =>
                 /\ hourly_snapshots[i].total_arrivals <= hourly_snapshots[j].total_arrivals
                 /\ hourly_snapshots[i].successful_swaps <= hourly_snapshots[j].successful_swaps
                 /\ hourly_snapshots[i].rejected_swaps <= hourly_snapshots[j].rejected_swaps
                 /\ hourly_snapshots[i].successful_swaps + hourly_snapshots[i].rejected_swaps
                       <= hourly_snapshots[i].total_arrivals)
    /\ [] (\A i, j \in DOMAIN frames :
              i <= j =>
                 /\ frames[i].swaps_completed <= frames[j].swaps_completed
                 /\ frames[i].swaps_lost <= frames[j].swaps_lost)

\* C32 witness: an hourly snapshot found a customer waiting, and the next
\* found that customer resolved
C32_Witness ==
    /\ Len(hourly_snapshots) = 3
    /\ hourly_snapshots[2].queue_length >= 1
    /\ hourly_snapshots[2].total_arrivals = 1
    /\ hourly_snapshots[3].successful_swaps + hourly_snapshots[3].rejected_swaps >= 2

\* C33: in every hourly snapshot and every timeline frame a positive
\* queue_length comes with an available count of zero.
C33_QueueOnlyWhenEmpty ==
    /\ \A i \in DOMAIN hourly_snapshots :
          hourly_snapshots[i].queue_length > 0 => hourly_snapshots[i].charged_inventory = 0
    /\ \A i \in DOMAIN frames :
          frames[i].queue_length > 0 => frames[i].batteries_available = 0

\* C34: every timeline frame's chargers_in_use equals the station's
\* depleted_count at that moment, every hourly snapshot's depleted_inventory
\* equals the number of running charge cycles, and both lie between 0 and
\* the charger count; this covers the records of t = 0 and the records taken
\* on the timestamp of a swap_end.
C34_ChargingIsDepleted ==
    /\ [][ Len(frames') > Len(frames) =>
             /\ Last(frames').chargers_in_use = depleted_count'
             /\ Last(frames').chargers_in_use = charging_count' ]_vars
    /\ [][ Len(hourly_snapshots') > Len(hourly_snapshots) =>
             /\ Last(hourly_snapshots').depleted_inventory = charging_count'
             /\ Last(hourly_snapshots').depleted_inventory = depleted_count' ]_vars
    /\ [] (\A i \in DOMAIN frames :
              /\ 0 <= frames[i].chargers_in_use
              /\ frames[i].chargers_in_use <= cfg.chargers)
    /\ [] (\A i \in DOMAIN hourly_snapshots :
              /\ 0 <= hourly_snapshots[i].depleted_inventory
              /\ hourly_snapshots[i].depleted_inventory <= cfg.chargers)

\* C34 witness: a frame taken on the timestamp of a swap_end counts the
\* returned unit's charger, after a first frame at t = 0 that counts the
\* initial shortfall
C34_Witness ==
    /\ Len(frames) >= 2
    /\ frames[1].timestamp_min = 0
    /\ frames[1].chargers_in_use = cfg.chargers - InitialLevel(cfg)
    /\ frames[1].chargers_in_use >= 1
    /\ \E i \in DOMAIN frames, k \in DOMAIN swap_events :
          /\ swap_events[k].event_type = "swap_end"
          /\ swap_events[k].time = frames[i].timestamp_min
          /\ frames[i].chargers_in_use >= 1

\* C35: waiting customers are served in order of arrival: the pool's queue
\* holds the waiting customers in arrival order, and whenever a customer's
\* request is fulfilled no customer who arrived earlier is still waiting.
C35_FirstComeFirstServed ==
    /\ [] (\A i, j \in DOMAIN get_queue : i < j => get_queue[i] < get_queue[j])
    /\ [] (\A i, j \in DOMAIN get_queue :
              i < j => cust[get_queue[i]].arrival_time <= cust[get_queue[j]].arrival_time)
    /\ [][ \A c \in DOMAIN cust' :
              ( /\ RequestTriggered(cust', c)
                /\ (c \notin DOMAIN cust \/ ~RequestTriggered(cust, c)) )
              => \A d \in DOMAIN cust' :
                    (d < c \/ cust'[d].arrival_time < cust'[c].arrival_time)
                       => cust'[d].req # "queued" ]_vars

\* C35 witness: of two customers who waited together, the earlier one has
\* been given a unit and the later one still waits
C35_Witness ==
    \E c, d \in DOMAIN cust :
        /\ c < d
        /\ cust[c].req = "triggered"
        /\ cust[c].arrival_time < now
        /\ cust[d].arrival_time < now
        /\ get_queue = << d >>

\* C36: the k-th timeline frame carries the timestamp (k-1) x interval and
\* the k-th hourly snapshot the time 60 x (k-1) with hour = k-1, all strictly
\* below the horizon; every such multiple that has passed has its record
\* (so a finished run has exactly one record per multiple below the
\* horizon), and the recorder's threshold is the number of frames times the
\* interval, moving by one interval with each frame.
C36_SamplingInstants ==
    /\ [] (status \in {"running", "finished"} =>
            LET interval == ComputeTimelineInterval(cfg)
            IN  /\ \A k \in DOMAIN frames :
                      /\ frames[k].timestamp_min = (k - 1) * interval
                      /\ frames[k].timestamp_min < cfg.simulation_duration
                /\ \A k \in DOMAIN hourly_snapshots :
                      /\ hourly_snapshots[k].time_minutes = HourlyPeriod * (k - 1)
                      /\ hourly_snapshots[k].hour = k - 1
                      /\ hourly_snapshots[k].time_minutes < cfg.simulation_duration
                /\ next_snapshot_time = Len(frames) * interval
                /\ \A t \in 0 .. cfg.simulation_duration - 1 :
                      /\ (t % interval = 0 /\ (t < now \/ status = "finished"))
                            => \E k \in DOMAIN frames : frames[k].timestamp_min = t
                      /\ (t % HourlyPeriod = 0 /\ (t < now \/ status = "finished"))
                            => \E k \in DOMAIN hourly_snapshots :
                                  hourly_snapshots[k].time_minutes = t)
    /\ [][ Len(frames') = Len(frames) + 1 =>
             next_snapshot_time' = next_snapshot_time + ComputeTimelineInterval(cfg) ]_vars

\* C36 witness: a run whose horizon is a multiple of both intervals has
\* finished with the records of 0 .. 105 and of hours 0 and 1, and none at
\* the horizon
C36_Witness ==
    /\ status = "finished"
    /\ cfg.simulation_duration = 120
    /\ Len(frames) = 8
    /\ frames[8].timestamp_min = 105
    /\ Len(hourly_snapshots) = 2
    /\ hourly_snapshots[2].hour = 1

----------------------------------------------------------------------------
\* KPICalculator._calculate_avg_inventory (kpis/calculator.py)

MaxInventoryEvents == 3

\* the average without the stretch from the last event to the horizon
CalculateAvgInventoryNoTail(events, simulation_duration) ==
    IF events = <<>> THEN Fraction(0, 1)
    ELSE LET RECURSIVE Weighted(_)
             Weighted(i) ==
                 IF i = 0 THEN 0
                 ELSE Weighted(i - 1)
                        + events[i].charged_count
                            * (events[i + 1].time - events[i].time)
             total_weighted_inventory == Weighted(Len(events) - 1)
         IN  IF simulation_duration > 0
             THEN Fraction(total_weighted_inventory, simulation_duration)
             ELSE Fraction(0, 1)

\* each event's charged_count weighs the time to the next event, the last
\* event's the time to the end of the simulation
CalculateAvgInventory(events, simulation_duration) ==
    IF events = <<>> THEN Fraction(0, 1)
    ELSE LET RECURSIVE Weighted(_)
             Weighted(i) ==
                 IF i = 0 THEN 0
                 ELSE Weighted(i - 1)
                        + events[i].charged_count
                            * (events[i + 1].time - events[i].time)
             last_event == events[Len(events)]
             remaining_duration == simulation_duration - last_event.time
             total_weighted_inventory ==
                 Weighted(Len(events) - 1)
                    + last_event.charged_count * remaining_duration
         IN  IF simulation_duration > 0
             THEN Fraction(total_weighted_inventory, simulation_duration)
             ELSE Fraction(0, 1)

\* the inventory logs of a station with n chargers over a horizon of sd
\* minutes: times in order and within the horizon, counts within 0 .. n
InventoryLogs(n, sd) ==
    UNION { { log \in [1 .. k -> { InventoryEvent(t, lv, n - lv) :
                                      t \in {0, 1, 2, 4}, lv \in 0 .. n }] :
                /\ \A i \in 1 .. k : log[i].time <= sd
                /\ \A i \in 1 .. k - 1 : log[i].time <= log[i + 1].time }
            : k \in 0 .. MaxInventoryEvents }

InitAvgInventory ==
    /\ SimIdle
    /\ ApplyIdle
    /\ \E n \in {1, 2}, sd \in {0, 4, 6} :
          \E log \in InventoryLogs(n, sd) :
             call = [fn |-> "_calculate_avg_inventory", inventory_events |-> log,
                     simulation_duration |-> sd, chargers |-> n]
    /\ ret = <<>>

CallCalculateAvgInventory ==
    /\ call.fn = "_calculate_avg_inventory"
    /\ ret = <<>>
    /\ ret' = << CalculateAvgInventory(call.inventory_events, call.simulation_duration) >>
    /\ UNCHANGED <<call, simVars, applyVars>>

SpecAvgInventory == InitAvgInventory /\ [][CallCalculateAvgInventory]_vars

\* C37 as stated: the average times the horizon is the trapezoidal integral
\* of charged_count over the inventory events, the last value held to the
\* horizon, and the average lies in [0, charger count].
C37_TrapezoidalAverage ==
    (call.fn = "_calculate_avg_inventory" /\ ret # <<>>
        /\ call.inventory_events # <<>> /\ call.simulation_duration > 0) =>
        LET log == call.inventory_events
            RECURSIVE Trapezoids2(_)
            Trapezoids2(i) ==
                IF i = 0 THEN 0
                ELSE Trapezoids2(i - 1)
                       + (log[i].charged_count + log[i + 1].charged_count)
                           * (log[i + 1].time - log[i].time)
            twice == Trapezoids2(Len(log) - 1)
                       + 2 * log[Len(log)].charged_count
                           * (call.simulation_duration - log[Len(log)].time)
        IN  /\ 2 * ret[1].num * call.simulation_duration = twice * ret[1].den
            /\ 0 <= ret[1].num
            /\ ret[1].num <= call.chargers * ret[1].den

\* C37 (amended): the average is 0 for an empty log or a horizon that is not
\* positive; otherwise the average times the horizon is the sum, over the
\* minutes from the first event to the horizon, of the charged_count of the
\* last event logged up to that minute, and the average lies in
\* [0, charger count].
C37_StepAverage ==
    (call.fn = "_calculate_avg_inventory" /\ ret # <<>>) =>
        LET log == call.inventory_events
            sd == call.simulation_duration
            InForce(t) ==
                LET upTo == { i \in DOMAIN log : log[i].time <= t }
                IN  IF upTo = {} THEN 0
                    ELSE log[CHOOSE i \in upTo : \A j \in upTo : j <= i].charged_count
            RECURSIVE Minutes(_)
            Minutes(t) == IF t = 0 THEN 0 ELSE Minutes(t - 1) + InForce(t - 1)
        IN  /\ ret[1].den > 0
            /\ IF log = <<>> \/ sd <= 0
               THEN ret[1].num = 0
               ELSE ret[1].num * sd = Minutes(sd) * ret[1].den
            /\ 0 <= ret[1].num
            /\ ret[1].num <= call.chargers * ret[1].den

\* C37 witness: the average of a log whose count changes between two events
\* and whose last event lies before the horizon
C37_Witness ==
    /\ call.fn = "_calculate_avg_inventory" /\ ret # <<>>
    /\ Len(call.inventory_events) = 3
    /\ call.inventory_events[1].time > 0
    /\ call.inventory_events[1].time < call.inventory_events[2].time
    /\ call.inventory_events[1].charged_count > call.inventory_events[2].charged_count
    /\ call.inventory_events[3].charged_count > 0
    /\ call.inventory_events[3].time < call.simulation_duration
    /\ ret[1].num > 0

====
